---------------------------- MODULE Spec2Model ----------------------------
(***************************************************************************)
(* Model of the project-connection script of aws-cost-template             *)
(* (src/scripts/connect.js, class CostControlConnector): the Project       *)
(* Inspector (project type, infrastructure patterns, resource mentions,    *)
(* default budget, alert email) and the six-step connect() run.            *)
(*                                                                         *)
(* Text is modelled as a sequence of lexemes: the characters a regular     *)
(* expression of the script singles out ("<", ">", "@", newline) are       *)
(* lexemes of their own, every other lexeme is a non-empty run of other    *)
(* characters.  Str(text) is the JavaScript string.                        *)
(***************************************************************************)
EXTENDS Integers, Sequences, FiniteSets, TLC

VARIABLES
  files,        \* entries of process.cwd() that no `find -name` of the script lists
  packageJson,  \* what package.json holds (meaningful when it exists)
  tree,         \* the entries below cwd that `find` lists, in find's order
  gitEmail,     \* stdout of `git config --get user.email` (text)
  gitRemote,    \* stdout of `git config --get remote.origin.url` (text)
  gitIgnore,    \* the lines of .gitignore (meaningful when it exists)
  configFile,   \* the document in cost-controls-config.json (when it exists)
  config,       \* this.config of the connector
  pc,           \* position of connect() / which function was invoked
  written,      \* paths the run has created or modified in the project
  exitCode,     \* the status the process ended with, {} while it runs
  errorMessage, \* the message logged after "Connection failed: "
  result,       \* outcome of the last direct invocation of an Inspector function
  definition,   \* which of the file's two definitions of the class is run
  argv,         \* process.argv.slice(2) of the command line
  runs,         \* how many times connect has been started in this directory
  stdout,       \* what the command-line entry point has logged
  template,     \* the scripts the installed template holds in scripts/
  cliStatus,    \* the status the entry point's process ended with, {} before
  context,      \* the --context values `cdk deploy` is given
  processEnv,   \* the environment variables of the deployment
  stacks,       \* what the CDK app has deployed ({} before the deployment)
  instances,    \* the EC2 and RDS instances of the account
  spend,        \* the month's actual spend, in percent of the budget limit
  alerts,       \* for each notification of the budget: armed, published, delivered
  log,          \* what the Lambda functions and the deploy script have reported
  wrapper       \* the process of the generated deploy-with-cost-controls.js

vars == <<files, packageJson, tree, gitEmail, gitRemote, gitIgnore, configFile,
          config, pc, written, exitCode, errorMessage, result,
          definition, argv, runs, stdout, template, cliStatus,
          context, processEnv, stacks, instances, spend, alerts, log, wrapper>>

\* what the run is given and never changes
invocation == <<definition, argv, template>>
inputs == <<files, packageJson, tree, gitEmail, gitRemote, gitIgnore, configFile,
            invocation>>
\* state of the components the connector does not touch
\* the deployed cost-control infrastructure and the account it watches
cloud == <<context, processEnv, stacks, instances, spend, alerts, log>>
outside == <<stdout, cliStatus, cloud, wrapper>>
git == <<gitEmail, gitRemote>>

----------------------------------------------------------------------------
(* JavaScript values *)

Undefined == "undefined"

\* a JavaScript object with no own property (this.config = {})
EmptyObject == [k \in {} |-> Undefined]

\* obj.key = value
Put(obj, key, value) ==
  [k \in DOMAIN obj \cup {key} |-> IF k = key THEN value ELSE obj[k]]

\* obj.key, undefined when the property is missing
Get(obj, key) == IF key \in DOMAIN obj THEN obj[key] ELSE Undefined

\* the outcome of a call: a returned value or a thrown error
Return(v) == [kind |-> "return", value |-> v]
Throw(e) == [kind |-> "throw", value |-> e]
NoCall == [kind |-> "none", value |-> Undefined]

RECURSIVE Str(_)
\* the string a text stands for
Str(text) == IF text = <<>> THEN "" ELSE Head(text) \o Str(Tail(text))

----------------------------------------------------------------------------
(* package.json *)

\* dependency entries map a package name to an npm version range
Version == "^2.0.0"
DepNames == {"aws-cdk-lib", "aws-sdk"}
DepMaps == UNION {[ks -> {Version}] : ks \in SUBSET DepNames}

NoText == <<>>

\* a package.json that JSON.parse accepts: `keys` are its top-level keys
Manifest(keys, deps, devDeps, name, author) ==
  [parses |-> TRUE, keys |-> keys, dependencies |-> deps,
   devDependencies |-> devDeps, name |-> name, author |-> author,
   scripts |-> EmptyObject]

\* a package.json that JSON.parse rejects with a SyntaxError
BrokenManifest ==
  [parses |-> FALSE, keys |-> {}, dependencies |-> EmptyObject,
   devDependencies |-> EmptyObject, name |-> "",
   author |-> [form |-> "string", text |-> NoText], scripts |-> EmptyObject]

NoAuthor == [form |-> "string", text |-> NoText]

\* packageJson.dependencies && packageJson.dependencies[dep]
HasDependency(pkg, dep) ==
  /\ "dependencies" \in pkg.keys
  /\ dep \in DOMAIN pkg.dependencies
  /\ pkg.dependencies[dep] # ""

----------------------------------------------------------------------------
(* the project directory *)

Unreadable == <<"EACCES">>

\* an entry of the tree: `dir` is the path of its directory below cwd as a
\* sequence of components, `content` its text (Unreadable: readFileSync throws)
File(dir, stem, ext, content) ==
  [type |-> "f", dir |-> dir, stem |-> stem, ext |-> ext, content |-> content]

\* a directory whose own name carries an extension
Directory(dir, stem, ext) ==
  [type |-> "d", dir |-> dir, stem |-> stem, ext |-> ext, content |-> Unreadable]

BaseName(e) == e.stem \o "." \o e.ext

RECURSIVE JoinWith(_, _)
\* Array.prototype.join
JoinWith(strings, sep) ==
  IF strings = <<>> THEN ""
  ELSE IF Len(strings) = 1 THEN strings[1]
  ELSE strings[1] \o sep \o JoinWith(Tail(strings), sep)

\* the path of an entry relative to cwd
RelPath(e) == JoinWith(e.dir \o <<BaseName(e)>>, "/")

Range(seq) == {seq[i] : i \in DOMAIN seq}

\* fs.existsSync(name) for a name relative to cwd
existsSync(name) ==
  \/ name \in files
  \/ name = "."
  \/ \E e \in Range(tree) : RelPath(e) = name
  \/ \E e \in Range(tree) : e.dir # <<>> /\ e.dir[1] = name

----------------------------------------------------------------------------
(* detectProjectType *)

\* packageJson.devDependencies && packageJson.devDependencies[dep]
HasDevDependency(pkg, dep) ==
  /\ "devDependencies" \in pkg.keys
  /\ dep \in DOMAIN pkg.devDependencies
  /\ pkg.devDependencies[dep] # ""

detectProjectType_SdkInDev ==
  IF existsSync("package.json")
  THEN IF ~packageJson.parses THEN Throw("SyntaxError")
       ELSE IF HasDependency(packageJson, "aws-cdk-lib") THEN Return("cdk-typescript")
       ELSE IF HasDevDependency(packageJson, "aws-sdk") THEN Return("nodejs-aws")
       ELSE Return("nodejs")
  ELSE IF existsSync("pom.xml") THEN Return("java-maven")
  ELSE IF existsSync("requirements.txt") THEN Return("python")
  ELSE IF existsSync("go.mod") THEN Return("golang")
  ELSE IF existsSync("Cargo.toml") THEN Return("rust")
  ELSE Return("unknown")

detectProjectType_PythonFirst ==
  IF existsSync("package.json")
  THEN IF ~packageJson.parses THEN Throw("SyntaxError")
       ELSE IF HasDependency(packageJson, "aws-cdk-lib") THEN Return("cdk-typescript")
       ELSE IF HasDependency(packageJson, "aws-sdk") THEN Return("nodejs-aws")
       ELSE Return("nodejs")
  ELSE IF existsSync("requirements.txt") THEN Return("python")
  ELSE IF existsSync("pom.xml") THEN Return("java-maven")
  ELSE IF existsSync("go.mod") THEN Return("golang")
  ELSE IF existsSync("Cargo.toml") THEN Return("rust")
  ELSE Return("unknown")

detectProjectType ==
  IF existsSync("package.json")
  THEN IF ~packageJson.parses THEN Throw("SyntaxError")
       ELSE IF HasDependency(packageJson, "aws-cdk-lib") THEN Return("cdk-typescript")
       ELSE IF HasDependency(packageJson, "aws-sdk") THEN Return("nodejs-aws")
       ELSE Return("nodejs")
  ELSE IF existsSync("pom.xml") THEN Return("java-maven")
  ELSE IF existsSync("requirements.txt") THEN Return("python")
  ELSE IF existsSync("go.mod") THEN Return("golang")
  ELSE IF existsSync("Cargo.toml") THEN Return("rust")
  ELSE Return("unknown")

----------------------------------------------------------------------------
(* regular expressions: every pattern of the script is an alternation of   *)
(* literals, given here as the set of lexemes it matches                    *)

\* RegExp.prototype.test of a pattern without the g flag
Test(alternatives, content) ==
  \E i \in DOMAIN content : content[i] \in alternatives

StackOrConstruct == {"Stack", "Construct"}
TemplateFormat == {"AWSTemplateFormatVersion"}

----------------------------------------------------------------------------
(* findFiles, detectInfrastructure *)

\* `find . -name "*.<ext>" -type f`, the '**/' of the pattern removed
FindByName(ext) == SelectSeq(tree, LAMBDA e : e.type = "f" /\ e.ext = ext)

\* fs.readFileSync(file) inside try/catch, then contentPattern.test(content)
FileMatches(e, contentPattern) ==
  e.content # Unreadable /\ Test(contentPattern, e.content)

NoPattern == {}

\* findFiles(pattern, contentPattern) for the pattern '**/*.<ext>'
findFiles(ext, contentPattern) ==
  LET found == FindByName(ext)
  IN IF contentPattern # NoPattern /\ Len(found) > 0
     THEN \E i \in DOMAIN found : FileMatches(found[i], contentPattern)
     ELSE Len(found) > 0

\* the four conditions of detectInfrastructure
CdkCheck ==
  existsSync("cdk.json") \/ findFiles("ts", StackOrConstruct)

CloudFormationCheck ==
  \/ findFiles("yaml", TemplateFormat)
  \/ findFiles("yml", TemplateFormat)
  \/ findFiles("json", TemplateFormat)

TerraformCheck ==
  findFiles("tf", NoPattern) \/ existsSync("terraform.tfstate")

ServerlessCheck ==
  existsSync("serverless.yml") \/ existsSync("serverless.yaml")

\* patterns.push(label) when the condition holds
PushIf(patterns, cond, label) ==
  IF cond THEN Append(patterns, label) ELSE patterns

detectInfrastructure_NoJoin ==
  LET p1 == PushIf(<<>>, CdkCheck, "aws-cdk")
      p2 == PushIf(p1, CloudFormationCheck, "cloudformation")
      p3 == PushIf(p2, TerraformCheck, "terraform")
      p4 == PushIf(p3, ServerlessCheck, "serverless")
  IN IF Len(p4) > 0 THEN p4[1] ELSE "none-detected"

detectInfrastructure ==
  LET p1 == PushIf(<<>>, CdkCheck, "aws-cdk")
      p2 == PushIf(p1, CloudFormationCheck, "cloudformation")
      p3 == PushIf(p2, TerraformCheck, "terraform")
      p4 == PushIf(p3, ServerlessCheck, "serverless")
  IN IF Len(p4) > 0 THEN JoinWith(p4, ", ") ELSE "none-detected"

----------------------------------------------------------------------------
(* detectExistingResources *)

\* the resource categories; a category name is a text whose lexemes single
\* out the substrings calculateDefaultBudget looks for
EC2Instances == <<"EC2", " Instances">>
RDSDatabases == <<"RDS", " Databases">>
S3Buckets == <<"S3", " Buckets">>
LambdaFunctions == <<"Lambda", " Functions">>
LoadBalancers == <<"Load Balancer", "s">>

\* Object.entries(patterns): the five /g patterns in insertion order
patterns ==
  << [type |-> EC2Instances,
      alternatives |-> {"AWS::EC2::Instance", "new ec2.Instance", "EC2.Instance"}],
     [type |-> RDSDatabases,
      alternatives |-> {"AWS::RDS::DBInstance", "new rds.Database", "RDS.Database"}],
     [type |-> S3Buckets,
      alternatives |-> {"AWS::S3::Bucket", "new s3.Bucket", "S3.Bucket"}],
     [type |-> LambdaFunctions,
      alternatives |-> {"AWS::Lambda::Function", "new lambda.Function", "Lambda.Function"}],
     [type |-> LoadBalancers,
      alternatives |-> {"AWS::ElasticLoadBalancingV2", "new elbv2."}] >>

ResourceTypes == {patterns[k].type : k \in DOMAIN patterns}

RECURSIVE Offset(_, _)
\* index in the string of the first character of lexeme i (0-based);
\* Offset(content, Len(content) + 1) is the length of the string
Offset(content, i) ==
  IF i = 1 THEN 0 ELSE Offset(content, i - 1) + Len(content[i - 1])

\* RegExp.prototype.test of a /g pattern whose lastIndex is `lastIndex`: the
\* search starts at lastIndex; a match moves lastIndex to its end, a failure
\* resets it to 0
TestGlobal(alternatives, content, lastIndex) ==
  LET hits == {i \in DOMAIN content :
                 content[i] \in alternatives /\ Offset(content, i) >= lastIndex}
      first == CHOOSE i \in hits : \A j \in hits : i <= j
  IN IF hits = {}
     THEN [matched |-> FALSE, lastIndex |-> 0]
     ELSE [matched |-> TRUE,
           lastIndex |-> Offset(content, first) + Len(content[first])]

\* the extensions `find <dir> -name "*.ts" -o -name "*.js" ...` lists
ScanExts == {"ts", "js", "yaml", "yml", "json"}

scanDirs == <<"src", "lib", "infrastructure", "stacks", ".">>

UnderDir(e, dir) == dir = "." \/ (e.dir # <<>> /\ e.dir[1] = dir)

\* the path `find <dir>` prints for an entry
FoundPath(e, dir) == IF dir = "." THEN "./" \o RelPath(e) ELSE RelPath(e)

\* f.includes('node_modules')
InNodeModules(e) == "node_modules" \in Range(e.dir) \/ e.stem = "node_modules"

\* the filtered output of find for one scan directory
FindForScan(dir) ==
  SelectSeq(tree, LAMBDA e : UnderDir(e, dir) /\ e.ext \in ScanExts
                             /\ ~InNodeModules(e))

\* the entries of one scan directory whose content the loop gets to read, each
\* with the path find printed; an unreadable entry is skipped
ReadableFound(dir) ==
  LET found == SelectSeq(FindForScan(dir), LAMBDA e : e.content # Unreadable)
  IN [i \in DOMAIN found |->
        [file |-> FoundPath(found[i], dir), content |-> found[i].content]]

RECURSIVE ScanList(_)
\* for (const dir of scanDirs), from index d: the files read, in order
ScanList(d) ==
  IF d > Len(scanDirs) THEN <<>>
  ELSE (IF existsSync(scanDirs[d]) THEN ReadableFound(scanDirs[d]) ELSE <<>>)
       \o ScanList(d + 1)

\* lastIndex of pattern k after the n-th file read; 0 when the call starts,
\* since the pattern objects are created by the call
LastIndexAfter(k, scanned) ==
  LET after[n \in 0..Len(scanned)] ==
        IF n = 0 THEN 0
        ELSE TestGlobal(patterns[k].alternatives, scanned[n].content,
                        after[n - 1]).lastIndex
  IN after

\* pattern.test(content) of pattern k on the n-th file read
TestAt(k, n, scanned) ==
  TestGlobal(patterns[k].alternatives, scanned[n].content,
             LastIndexAfter(k, scanned)[n - 1]).matched

\* the tests in the order the two nested loops make them: file n, pattern k
TestOrder(scanned) ==
  [i \in 1..(Len(scanned) * Len(patterns)) |->
     [n |-> ((i - 1) \div Len(patterns)) + 1, k |-> ((i - 1) % Len(patterns)) + 1]]

\* resources.push({ type: resourceType, file }) for every test that succeeds
detectExistingResources ==
  LET scanned == ScanList(1)
      hits == SelectSeq(TestOrder(scanned), LAMBDA t : TestAt(t.k, t.n, scanned))
  IN [i \in DOMAIN hits |->
        [type |-> patterns[hits[i].k].type, file |-> scanned[hits[i].n].file]]

----------------------------------------------------------------------------
(* calculateDefaultBudget *)

\* String.prototype.includes on a text, for a needle that is one of its lexemes
Includes(text, needle) == \E i \in DOMAIN text : text[i] = needle

DevDefaultBudget == 100
ManyResourcesThreshold == 10
ManyResourcesExtra == 100
DatabaseExtra == 50
LoadBalancerExtra == 30

calculateDefaultBudget_AtLeastTen(existingResources) ==
  LET resourceCount == Len(existingResources)
      hasDatabase == \E i \in DOMAIN existingResources :
                        Includes(existingResources[i].type, "RDS")
      hasLoadBalancer == \E i \in DOMAIN existingResources :
                            Includes(existingResources[i].type, "Load Balancer")
  IN DevDefaultBudget
     + (IF resourceCount >= ManyResourcesThreshold THEN ManyResourcesExtra ELSE 0)
     + (IF hasDatabase THEN DatabaseExtra ELSE 0)
     + (IF hasLoadBalancer THEN LoadBalancerExtra ELSE 0)

calculateDefaultBudget_AssignDatabase(existingResources) ==
  LET resourceCount == Len(existingResources)
      hasDatabase == \E i \in DOMAIN existingResources :
                        Includes(existingResources[i].type, "RDS")
      hasLoadBalancer == \E i \in DOMAIN existingResources :
                            Includes(existingResources[i].type, "Load Balancer")
      counted == DevDefaultBudget
                 + (IF resourceCount > ManyResourcesThreshold
                    THEN ManyResourcesExtra ELSE 0)
  IN (IF hasDatabase THEN DatabaseExtra ELSE counted)
     + (IF hasLoadBalancer THEN LoadBalancerExtra ELSE 0)

calculateDefaultBudget(existingResources) ==
  LET resourceCount == Len(existingResources)
      hasDatabase == \E i \in DOMAIN existingResources :
                        Includes(existingResources[i].type, "RDS")
      hasLoadBalancer == \E i \in DOMAIN existingResources :
                            Includes(existingResources[i].type, "Load Balancer")
  IN DevDefaultBudget
     + (IF resourceCount > ManyResourcesThreshold THEN ManyResourcesExtra ELSE 0)
     + (IF hasDatabase THEN DatabaseExtra ELSE 0)
     + (IF hasLoadBalancer THEN LoadBalancerExtra ELSE 0)

----------------------------------------------------------------------------
(* detectProjectName, detectAlertEmail *)

Whitespace == {" ", "\n"}

RECURSIVE TrimStart(_)
TrimStart(text) ==
  IF text # <<>> /\ Head(text) \in Whitespace THEN TrimStart(Tail(text)) ELSE text

RECURSIVE TrimEnd(_)
TrimEnd(text) ==
  IF text # <<>> /\ text[Len(text)] \in Whitespace
  THEN TrimEnd(SubSeq(text, 1, Len(text) - 1))
  ELSE text

\* String.prototype.trim
Trim(text) == TrimEnd(TrimStart(text))

\* execSync itself failing (the command cannot be spawned)
ExecError == <<"ENOENT">>

NoMatch == <<"null">>

\* author.match(/<([^>]+@[^>]+)>/): group 1 of the leftmost match, or NoMatch.
\* A match starts at a "<", runs to the first ">" after it and needs an "@"
\* with at least one character on each side in between
MatchAuthorEmail(text) ==
  LET Close(i) == {k \in DOMAIN text : k > i /\ text[k] = ">"}
      FirstClose(i) == CHOOSE k \in Close(i) : \A m \in Close(i) : k <= m
      MatchesAt(i) ==
        /\ text[i] = "<"
        /\ Close(i) # {}
        /\ \E j \in DOMAIN text :
             text[j] = "@" /\ i + 2 <= j /\ j + 2 <= FirstClose(i)
      starts == {i \in DOMAIN text : MatchesAt(i)}
      first == CHOOSE i \in starts : \A m \in starts : i <= m
  IN IF starts = {} THEN NoMatch
     ELSE SubSeq(text, first + 1, FirstClose(first) - 1)

FallbackEmail == "admin@company.com"

\* the package.json branch of detectAlertEmail; Undefined when it yields nothing
AuthorEmail ==
  IF ~existsSync("package.json") THEN Undefined
  ELSE IF ~packageJson.parses THEN Undefined            \* SyntaxError, caught
  ELSE IF "author" \notin packageJson.keys THEN Undefined
  ELSE IF packageJson.author.form # "string" THEN Undefined  \* TypeError, caught
  ELSE IF packageJson.author.text = NoText THEN Undefined
  ELSE IF MatchAuthorEmail(packageJson.author.text) = NoMatch THEN Undefined
  ELSE Str(MatchAuthorEmail(packageJson.author.text))

\* the git branch of detectAlertEmail; Undefined when it yields nothing
GitEmail ==
  IF gitEmail = ExecError THEN Undefined
  ELSE IF Trim(gitEmail) # <<>> /\ Includes(Trim(gitEmail), "@")
       THEN Str(Trim(gitEmail))
       ELSE Undefined

detectAlertEmail_AuthorFirst ==
  IF AuthorEmail # Undefined THEN AuthorEmail
  ELSE IF GitEmail # Undefined THEN GitEmail
  ELSE FallbackEmail

detectAlertEmail ==
  IF GitEmail # Undefined THEN GitEmail
  ELSE IF AuthorEmail # Undefined THEN AuthorEmail
  ELSE FallbackEmail

\* process.cwd(), as path components
TargetProjectPath == <<"home", "dev", "my-existing-project">>

\* a match that keeps a final ".git" in the group
MatchRemoteName_KeepGit(text) ==
  LET slashes == {i \in DOMAIN text : text[i] = "/"}
      last == CHOOSE i \in slashes : \A m \in slashes : m <= i
      rest == SubSeq(text, last + 1, Len(text))
  IN IF slashes = {} THEN NoMatch
     ELSE IF rest = <<>> THEN NoMatch
     ELSE rest

\* gitRemote.match(/\\/([^\\/]+?)(\\.git)?$/): group 1, or NoMatch.  The match
\* starts at the last "/"; what follows must be non-empty, and a final ".git"
\* is left out of the group unless it is all that follows
MatchRemoteName(text) ==
  LET slashes == {i \in DOMAIN text : text[i] = "/"}
      last == CHOOSE i \in slashes : \A m \in slashes : m <= i
      rest == SubSeq(text, last + 1, Len(text))
  IN IF slashes = {} THEN NoMatch
     ELSE IF rest = <<>> THEN NoMatch
     ELSE IF Len(rest) >= 2 /\ rest[Len(rest)] = ".git"
          THEN SubSeq(rest, 1, Len(rest) - 1)
          ELSE rest

detectProjectName ==
  IF existsSync("package.json") /\ ~packageJson.parses
  THEN Throw("SyntaxError")
  ELSE IF existsSync("package.json") /\ "name" \in packageJson.keys
          /\ packageJson.name # ""
  THEN Return(packageJson.name)
  ELSE IF gitRemote # ExecError /\ Trim(gitRemote) # <<>>
          /\ MatchRemoteName(Trim(gitRemote)) # NoMatch
  THEN Return(Str(MatchRemoteName(Trim(gitRemote))))
  ELSE Return(TargetProjectPath[Len(TargetProjectPath)])

----------------------------------------------------------------------------
(* project directories the Inspector is run on *)

Filler == "..."

PackageJsonFile == File(<<>>, "package", "json", <<Filler>>)

\* the dependency map under a key of package.json: absent, or one of DepMaps
OptionalDeps == {[present |-> FALSE, map |-> EmptyObject]}
                \cup {[present |-> TRUE, map |-> m] : m \in DepMaps}

ManifestKeys(deps, devDeps, name, author) ==
  (IF deps.present THEN {"dependencies"} ELSE {})
  \cup (IF devDeps.present THEN {"devDependencies"} ELSE {})
  \cup (IF name.present THEN {"name"} ELSE {})
  \cup (IF author.present THEN {"author"} ELSE {})

NoName == [present |-> FALSE, value |-> ""]
AbsentAuthor == [present |-> FALSE, value |-> NoAuthor]

ManifestOf(deps, devDeps, name, author) ==
  Manifest(ManifestKeys(deps, devDeps, name, author), deps.map, devDeps.map,
           name.value, author.value)

PlainManifest == ManifestOf(CHOOSE d \in OptionalDeps : ~d.present,
                            CHOOSE d \in OptionalDeps : ~d.present,
                            NoName, AbsentAuthor)

\* a project that has neither a .gitignore nor a cost-controls-config.json
NoGeneratedFiles ==
  /\ gitIgnore = <<>>
  /\ configFile = EmptyObject

\* the generated wrapper before `npm run deploy-with-cost-controls`
NotStarted ==
  [pc |-> "idle", deployCommand |-> "", validated |-> FALSE, estimatedCost |-> 0,
   isValid |-> FALSE, executed |-> <<>>, status |-> {}]

\* nothing of the CDK app is deployed
NotDeployed ==
  /\ context = EmptyObject
  /\ processEnv = EmptyObject
  /\ stacks = EmptyObject
  /\ instances = EmptyObject
  /\ spend = 0
  /\ alerts = <<>>
  /\ log = {}

\* the state of a connector that has been constructed and not yet run
Constructed ==
  /\ NotDeployed
  /\ config = EmptyObject
  /\ written = {}
  /\ exitCode = {}
  /\ errorMessage = ""
  /\ result = NoCall
  /\ runs = 1
  /\ stdout = <<>>
  /\ cliStatus = {}
  /\ wrapper = NotStarted

TypeMarkers == {"pom.xml", "requirements.txt", "go.mod", "Cargo.toml"}

\* directories that differ in what decides the project type
TypeInputs ==
  /\ files \in SUBSET TypeMarkers
  /\ \/ /\ tree = <<>>
        /\ packageJson = PlainManifest
     \/ /\ tree = <<PackageJsonFile>>
        /\ \/ packageJson = BrokenManifest
           \/ \E deps \in OptionalDeps, devDeps \in OptionalDeps :
                packageJson = ManifestOf(deps, devDeps, NoName, AbsentAuthor)
  /\ gitEmail = <<>>
  /\ gitRemote = <<>>
  /\ NoGeneratedFiles

Optional(e) == {<<>>, <<e>>}

TsContents == {<<Filler>>, <<Filler, "Stack">>, <<"Construct", Filler>>, Unreadable}
TemplateContents == {<<Filler>>, <<"AWSTemplateFormatVersion", Filler>>}

\* directories that differ in what decides the infrastructure patterns
InfraInputs ==
  /\ files \in SUBSET {"terraform.tfstate", "requirements.txt"}
  /\ \E cdk \in Optional(File(<<>>, "cdk", "json", <<Filler>>)),
        sls \in Optional(File(<<>>, "serverless", "yml", <<Filler>>)),
        slsa \in Optional(File(<<>>, "serverless", "yaml", <<Filler>>)),
        ts \in UNION {Optional(File(<<"lib">>, "app-stack", "ts", c)) : c \in TsContents},
        yaml \in UNION {Optional(File(<<>>, "template", "yaml", c)) : c \in TemplateContents},
        yml \in Optional(File(<<"infrastructure">>, "network", "yml",
                              <<Filler, "AWSTemplateFormatVersion">>)),
        json \in UNION {Optional(File(<<"stacks">>, "params", "json", c)) : c \in TemplateContents},
        tf \in Optional(File(<<"terraform">>, "main", "tf", <<Filler>>))
                \cup {<<Directory(<<>>, "modules", "tf")>>} :
        tree = cdk \o sls \o slsa \o ts \o yaml \o yml \o json \o tf
  /\ packageJson = PlainManifest
  /\ gitEmail = <<>>
  /\ gitRemote = <<>>
  /\ NoGeneratedFiles


\* sample outputs of `git config --get user.email`, each with the address it
\* holds when it holds a usable one ("" otherwise)
GitEmailSamples ==
  { [text |-> <<>>, email |-> ""],
    [text |-> <<"\n">>, email |-> ""],
    [text |-> <<"dev", "\n">>, email |-> ""],
    [text |-> <<"dev", "@", "corp.io", "\n">>, email |-> "dev@corp.io"],
    [text |-> ExecError, email |-> ""] }

\* sample author strings, each with the address it carries in angle brackets
\* ("" when it carries none)
AuthorSamples ==
  { [text |-> <<"Jane Doe">>, email |-> ""],
    [text |-> <<"Jane Doe ", "<", "jane", "@", "corp.io", ">">>, email |-> "jane@corp.io"],
    [text |-> <<"Jane Doe ", "<", "jane", ">">>, email |-> ""],
    [text |-> <<"ops", "@", "corp.io">>, email |-> ""],
    [text |-> <<"<", "@", "corp.io", ">">>, email |-> ""],
    [text |-> <<"Jane ", "<", "jd", ">", " ", "<", "ops", "@", "corp.io", ">">>,
     email |-> "ops@corp.io"] }

AuthorOptions ==
  {AbsentAuthor,
   [present |-> TRUE, value |-> NoAuthor],
   [present |-> TRUE, value |-> [form |-> "object", text |-> NoText]]}
  \cup {[present |-> TRUE, value |-> [form |-> "string", text |-> a.text]] :
          a \in AuthorSamples}

\* directories and git settings that differ in what decides the alert email
EmailInputs ==
  /\ files = {}
  /\ \/ /\ tree = <<>>
        /\ packageJson = PlainManifest
     \/ /\ tree = <<PackageJsonFile>>
        /\ \/ packageJson = BrokenManifest
           \/ \E author \in AuthorOptions :
                packageJson = ManifestOf(CHOOSE d \in OptionalDeps : ~d.present,
                                         CHOOSE d \in OptionalDeps : ~d.present,
                                         NoName, author)
  /\ \E g \in GitEmailSamples : gitEmail = g.text
  /\ gitRemote = <<>>
  /\ NoGeneratedFiles

NameOptions == {NoName, [present |-> TRUE, value |-> ""],
                [present |-> TRUE, value |-> "billing-api"]}

GitRemoteSamples ==
  { <<>>,
    ExecError,
    <<"https:", "/", "/", "github.com", "/", "acme", "/", "billing", ".git", "\n">>,
    <<"git", "@", "github.com:acme", "/", "billing", "\n">>,
    <<"https:", "/", "/", "github.com", "/", "acme", "/", "billing", "/", "\n">>,
    <<"git", "@", "host:billing", ".git", "\n">> }

\* directories and git settings that differ in what decides the project name
NameInputs ==
  /\ files = {}
  /\ \/ /\ tree = <<>>
        /\ packageJson = PlainManifest
     \/ /\ tree = <<PackageJsonFile>>
        /\ \/ packageJson = BrokenManifest
           \/ \E name \in NameOptions :
                packageJson = ManifestOf(CHOOSE d \in OptionalDeps : ~d.present,
                                         CHOOSE d \in OptionalDeps : ~d.present,
                                         name, AbsentAuthor)
  /\ gitEmail = <<>>
  /\ gitRemote \in GitRemoteSamples
  /\ NoGeneratedFiles

\* how many source files a scanned directory tree holds at most
MaxTreeFiles == 2

ScanContents ==
  { <<Filler>>,
    <<"AWS::EC2::Instance">>,
    <<Filler, "new ec2.Instance">>,
    <<"AWS::RDS::DBInstance", Filler, "AWS::EC2::Instance">>,
    Unreadable }

ScanFiles ==
  UNION { { File(<<"src">>, "handler", "js", c),
            File(<<"lib">>, "app-stack", "ts", c),
            File(<<>>, "template", "yaml", c),
            File(<<"node_modules", "aws-cdk-lib">>, "index", "js", c) } :
          c \in ScanContents }

\* the trees of at most MaxTreeFiles files with different paths
ScanTrees ==
  { t \in UNION {[1..n -> ScanFiles] : n \in 0..MaxTreeFiles} :
      \A i, j \in DOMAIN t : i # j => RelPath(t[i]) # RelPath(t[j]) }

\* directories that differ in the source files the resource scan reads
ScanInputs ==
  /\ files \in SUBSET {"pom.xml"}
  /\ tree \in ScanTrees
  /\ packageJson = PlainManifest
  /\ gitEmail = <<>>
  /\ gitRemote = <<>>
  /\ NoGeneratedFiles

----------------------------------------------------------------------------
(* SpecInspector: the functions of the Inspector invoked one at a time on a *)
(* project directory                                                        *)

InitInspector ==
  /\ TypeInputs \/ InfraInputs \/ EmailInputs \/ NameInputs \/ ScanInputs
  /\ Constructed
  /\ definition = 1
  /\ argv = <<>>
  /\ template = {"connect.js"}
  /\ pc = "idle"

\* one direct invocation: the directory is only read
Invoke(name, outcome) ==
  /\ pc = "idle"
  /\ pc' = name
  /\ result' = outcome
  /\ UNCHANGED <<inputs, config, written, exitCode, errorMessage, runs, outside>>

CallDetectProjectType == Invoke("detectProjectType", detectProjectType)

CallDetectInfrastructure ==
  Invoke("detectInfrastructure", Return(detectInfrastructure))

CallDetectExistingResources ==
  Invoke("detectExistingResources", Return(detectExistingResources))

CallDetectProjectName == Invoke("detectProjectName", detectProjectName)

CallDetectAlertEmail == Invoke("detectAlertEmail", Return(detectAlertEmail))

NextInspector ==
  \/ CallDetectProjectType
  \/ CallDetectInfrastructure
  \/ CallDetectExistingResources
  \/ CallDetectProjectName
  \/ CallDetectAlertEmail

SpecInspector == InitInspector /\ [][NextInspector]_vars

----------------------------------------------------------------------------
(* Properties of the Inspector's functions (SpecInspector) *)

ParsedManifest == existsSync("package.json") /\ packageJson.parses

\* the keys of the two dependency maps of package.json
DependencyKeys == DOMAIN packageJson.dependencies
AllDependencyKeys ==
  DOMAIN packageJson.dependencies \cup DOMAIN packageJson.devDependencies

\* C2: a package.json whose dependency map (dependencies or devDependencies)
\* holds the key aws-cdk-lib is classified 'cdk-typescript', whatever else the
\* directory holds
C2_CdkKeyGivesCdkTypescript ==
  (/\ pc = "detectProjectType"
   /\ ParsedManifest
   /\ "aws-cdk-lib" \in AllDependencyKeys)
  => result = Return("cdk-typescript")

MarkerPriority ==
  << [file |-> "pom.xml", type |-> "java-maven"],
     [file |-> "requirements.txt", type |-> "python"],
     [file |-> "go.mod", type |-> "golang"],
     [file |-> "Cargo.toml", type |-> "rust"] >>

PresentMarkers == {i \in DOMAIN MarkerPriority : MarkerPriority[i].file \in files}

\* C4: the project type is decided by the first match of a fixed chain: a
\* package.json without CDK or SDK dependency gives 'nodejs' whatever marker
\* files exist; without package.json the first existing file of pom.xml,
\* requirements.txt, go.mod, Cargo.toml decides, and 'unknown' is the result
\* when none exists
C4_FirstMatchWins ==
  pc = "detectProjectType" =>
    /\ (ParsedManifest /\ AllDependencyKeys \cap DepNames = {})
         => result = Return("nodejs")
    /\ (~existsSync("package.json") /\ PresentMarkers = {})
         => result = Return("unknown")
    /\ (~existsSync("package.json") /\ PresentMarkers # {})
         => \E i \in PresentMarkers :
              /\ \A j \in PresentMarkers : i <= j
              /\ result = Return(MarkerPriority[i].type)

C4_Witness ==
  /\ pc = "detectProjectType"
  /\ ~existsSync("package.json")
  /\ files = {"go.mod", "Cargo.toml"}
  /\ result = Return("golang")

\* what the directory holds, stated without the script's helpers
TopLevel(name) ==
  name \in files \/ \E e \in Range(tree) : e.dir = <<>> /\ BaseName(e) = name

ReadableWith(exts, words) ==
  \E e \in Range(tree) :
    /\ e.type = "f"
    /\ e.ext \in exts
    /\ e.content # Unreadable
    /\ Range(e.content) \cap words # {}

CdkPresent == TopLevel("cdk.json") \/ ReadableWith({"ts"}, {"Stack", "Construct"})
CloudFormationPresent ==
  ReadableWith({"yaml", "yml", "json"}, {"AWSTemplateFormatVersion"})
TerraformPresent ==
  TopLevel("terraform.tfstate") \/ \E e \in Range(tree) : e.type = "f" /\ e.ext = "tf"
ServerlessPresent == TopLevel("serverless.yml") \/ TopLevel("serverless.yaml")

\* `label` added to what has been listed so far, after ", " if there is any
Listed(sofar, present, label) ==
  IF ~present THEN sofar
  ELSE IF sofar = "" THEN label
  ELSE sofar \o ", " \o label

ExpectedInfrastructure ==
  LET l1 == Listed("", CdkPresent, "aws-cdk")
      l2 == Listed(l1, CloudFormationPresent, "cloudformation")
      l3 == Listed(l2, TerraformPresent, "terraform")
      l4 == Listed(l3, ServerlessPresent, "serverless")
  IN l4

\* C6: detectInfrastructure returns 'none-detected' exactly when none of the
\* four checks succeeds, and otherwise the labels of exactly the checks that
\* succeeded, each once, in the order aws-cdk, cloudformation, terraform,
\* serverless, joined with ', '
C6_InfrastructureListsSucceededChecks ==
  pc = "detectInfrastructure" =>
    /\ (result.value = "none-detected") <=>
         ~(CdkPresent \/ CloudFormationPresent \/ TerraformPresent \/ ServerlessPresent)
    /\ (CdkPresent \/ CloudFormationPresent \/ TerraformPresent \/ ServerlessPresent)
         => result = Return(ExpectedInfrastructure)

C6_Witness ==
  /\ pc = "detectInfrastructure"
  /\ CdkPresent /\ ~CloudFormationPresent /\ TerraformPresent /\ ServerlessPresent
  /\ result.value = "aws-cdk, terraform, serverless"

\* C7: in detectExistingResources a (category, file) pair is appended for a
\* scanned file exactly when the category's regular expression matches
\* somewhere in the file's content, whatever was scanned before it
C7_PairIffPatternMatches ==
  pc = "detectExistingResources" =>
    \A d \in DOMAIN scanDirs : existsSync(scanDirs[d]) =>
      \A e \in Range(FindForScan(scanDirs[d])) : e.content # Unreadable =>
        \A k \in DOMAIN patterns :
          ([type |-> patterns[k].type, file |-> FoundPath(e, scanDirs[d])]
              \in Range(result.value))
          <=> (Range(e.content) \cap patterns[k].alternatives # {})

GitSample == CHOOSE g \in GitEmailSamples : g.text = gitEmail

\* the address the author field carries, "" when package.json gives none
AuthorSampleEmail ==
  IF /\ ParsedManifest
     /\ "author" \in packageJson.keys
     /\ packageJson.author.form = "string"
     /\ \E a \in AuthorSamples : a.text = packageJson.author.text
  THEN (CHOOSE a \in AuthorSamples : a.text = packageJson.author.text).email
  ELSE ""

\* C10: detectAlertEmail returns the git user.email when it is non-empty and
\* contains '@'; otherwise the address in angle brackets in the author field
\* of package.json when there is one; otherwise 'admin@company.com'
C10_AlertEmailPriority ==
  pc = "detectAlertEmail" =>
    result = Return(IF GitSample.email # "" THEN GitSample.email
                    ELSE IF AuthorSampleEmail # "" THEN AuthorSampleEmail
                    ELSE "admin@company.com")

C10_Witness ==
  /\ pc = "detectAlertEmail"
  /\ GitSample.email = "dev@corp.io"
  /\ AuthorSampleEmail = "jane@corp.io"
  /\ result = Return("dev@corp.io")

C10_WitnessAuthor ==
  /\ pc = "detectAlertEmail"
  /\ GitSample.email = ""
  /\ AuthorSampleEmail = "ops@corp.io"
  /\ result = Return("ops@corp.io")

----------------------------------------------------------------------------
(* SpecBudget: calculateDefaultBudget on resource lists as a scan produces  *)
(* them, and on each list with one more mention appended                    *)

\* how many files contribute mentions to a list
MaxScannedFiles == 4

ScannedFile(n) == "./lib/stack-" \o ToString(n) \o ".ts"

\* which patterns match a file, for the kinds of file the lists are made of
Profiles == { {1}, {2}, {5}, {1, 3, 4}, DOMAIN patterns }

\* the mentions a scan pushes for file n: one per matching pattern, in the
\* order of the patterns
FileMentions(profile, n) ==
  LET ks == SelectSeq([k \in DOMAIN patterns |-> k], LAMBDA k : k \in profile)
  IN [i \in DOMAIN ks |-> [type |-> patterns[ks[i]].type, file |-> ScannedFile(n)]]

RECURSIVE ListsOfFiles(_)
\* the lists a scan of n files produces
ListsOfFiles(n) ==
  IF n = 0 THEN {<<>>}
  ELSE {l \o FileMentions(p, n) : l \in ListsOfFiles(n - 1), p \in Profiles}

ScanLists == UNION {ListsOfFiles(n) : n \in 0..MaxScannedFiles}

InitBudget ==
  /\ files = {}
  /\ tree = <<>>
  /\ packageJson = PlainManifest
  /\ gitEmail = <<>>
  /\ gitRemote = <<>>
  /\ NoGeneratedFiles
  /\ \E list \in ScanLists :
       /\ config = Put(EmptyObject, "existingResources", list)
       /\ result = Return(calculateDefaultBudget(list))
  /\ pc = "calculateDefaultBudget"
  /\ written = {}
  /\ exitCode = {}
  /\ errorMessage = ""
  /\ definition = 1
  /\ argv = <<>>
  /\ template = {"connect.js"}
  /\ runs = 1
  /\ stdout = <<>>
  /\ cliStatus = {}
  /\ wrapper = NotStarted
  /\ NotDeployed

\* one more mention is appended and the budget is calculated for the longer list
BudgetWithMention(type, file) ==
  LET longer == Append(config["existingResources"], [type |-> type, file |-> file])
  IN /\ pc = "calculateDefaultBudget"
     /\ pc' = "recalculated"
     /\ config' = Put(config, "existingResources", longer)
     /\ result' = Return(calculateDefaultBudget(longer))
     /\ UNCHANGED <<inputs, written, exitCode, errorMessage, runs, outside>>

NextBudget ==
  \E type \in ResourceTypes, n \in {1, MaxScannedFiles} :
    BudgetWithMention(type, ScannedFile(n))

SpecBudget == InitBudget /\ [][NextBudget]_vars

Mentions == config["existingResources"]

MentionsOf(type) == {i \in DOMAIN Mentions : Mentions[i].type = type}

\* C8: the default budget is 100, plus 100 when the list has more than 10
\* entries, plus 50 when it holds an 'RDS Databases' mention, plus 30 when it
\* holds a 'Load Balancers' mention, and depends on nothing else
C8_BudgetFormula ==
  result = Return(100
                  + (IF Len(Mentions) > 10 THEN 100 ELSE 0)
                  + (IF MentionsOf(RDSDatabases) # {} THEN 50 ELSE 0)
                  + (IF MentionsOf(LoadBalancers) # {} THEN 30 ELSE 0))

C8_Witness ==
  /\ pc = "recalculated"
  /\ Len(Mentions) = 12
  /\ Cardinality(MentionsOf(RDSDatabases)) = 1
  /\ Cardinality(MentionsOf(LoadBalancers)) = 1
  /\ result = Return(280)

C8_WitnessTen ==
  /\ Len(Mentions) = 10
  /\ MentionsOf(RDSDatabases) = {}
  /\ MentionsOf(LoadBalancers) = {}
  /\ result = Return(100)

C8_WitnessEmpty ==
  /\ Mentions = <<>>
  /\ result = Return(100)

\* C9: appending a mention to a list never lowers the default budget
C9_BudgetMonotonic ==
  [][(\E type \in ResourceTypes, n \in 1..MaxScannedFiles :
        config'["existingResources"]
          = Append(Mentions, [type |-> type, file |-> ScannedFile(n)]))
     => result'.value >= result.value]_vars

C9_Witness ==
  /\ pc = "recalculated"
  /\ Len(Mentions) = 11
  /\ MentionsOf(RDSDatabases) = {Len(Mentions)}
  /\ MentionsOf(LoadBalancers) # {}
  /\ result = Return(280)

----------------------------------------------------------------------------
(* connect(): the six steps, each awaited before the next starts *)

NoProjectMessage ==
  "No package.json, pom.xml, or requirements.txt found. Please run this in your project root."

\* the check analyzeProject makes before it detects anything
IsProjectDirectory_AnyMarker ==
  \/ existsSync("package.json")
  \/ existsSync("pom.xml")
  \/ existsSync("requirements.txt")
  \/ existsSync("go.mod")
  \/ existsSync("Cargo.toml")

IsProjectDirectory_Unchecked ==
  existsSync(".")

IsProjectDirectory ==
  \/ existsSync("package.json")
  \/ existsSync("pom.xml")
  \/ existsSync("requirements.txt")

\* catch (error): 'Connection failed: <message>' is logged, process.exit(1)
FailWith(message) ==
  /\ errorMessage' = message
  /\ exitCode' = {1}
  /\ pc' = "exited"

\* a step that throws before it has changed anything
Fail(message) ==
  /\ FailWith(message)
  /\ UNCHANGED <<inputs, config, written, result, runs, outside>>

\* Step 1
AnalyzeProject ==
  /\ pc = "analyzeProject"
  /\ IF ~IsProjectDirectory THEN Fail(NoProjectMessage)
     ELSE IF detectProjectType.kind = "throw" THEN Fail(detectProjectType.value)
     ELSE /\ config' = Put(Put(Put(config,
                                   "projectType", detectProjectType.value),
                               "infrastructure", detectInfrastructure),
                           "existingResources", detectExistingResources)
          /\ pc' = "gatherConfiguration"
          /\ UNCHANGED <<inputs, written, exitCode, errorMessage, result, runs, outside>>

\* Step 2: only the first definition of the class resolves an alert email
GatherConfiguration ==
  /\ pc = "gatherConfiguration"
  /\ IF detectProjectName.kind = "throw" THEN Fail(detectProjectName.value)
     ELSE /\ config' =
               LET gathered ==
                     Put(Put(Put(Put(Put(config,
                       "projectName", detectProjectName.value),
                       "environment", "dev"),
                       "costCenter", "engineering"),
                       "owner", "devops-team"),
                       "budget", calculateDefaultBudget(config["existingResources"]))
               IN IF definition = 1
                  THEN Put(gathered, "alertEmail", detectAlertEmail)
                  ELSE gathered
          /\ pc' = "injectCostControls"
          /\ UNCHANGED <<inputs, written, exitCode, errorMessage, result, runs, outside>>

\* fs.writeFileSync(path, content): the file is replaced where find lists it,
\* a new file is listed after the others
WriteFile(t, file) ==
  IF \E i \in DOMAIN t : RelPath(t[i]) = RelPath(file)
  THEN [i \in DOMAIN t |-> IF RelPath(t[i]) = RelPath(file) THEN file ELSE t[i]]
  ELSE Append(t, file)

RECURSIVE WriteFiles(_, _)
\* several writes, one after another
WriteFiles(t, fs) ==
  IF fs = <<>> THEN t ELSE WriteFiles(WriteFile(t, Head(fs)), Tail(fs))

\* the directory the cost-control modules are put in
costControlsDir ==
  IF definition = 1 THEN <<"cost-controls">>
  ELSE <<"node_modules", "@cost-controls">>

\* a wrapper written over a source file of the project
DeployWrapperFile_OverHandler ==
  File(<<"src">>, "handler", "js", <<Filler, "AWSTemplateFormatVersion", Filler>>)

\* the generated files, by the words of the scanned patterns they contain
CostControlUtilsFile ==
  File(<<"cost-controls">>, "cost-control-utils", "js",
       <<Filler, "AWS::EC2::Instance", "AWS::RDS::DBInstance",
         "AWS::Lambda::Function", "AWS::S3::Bucket", Filler>>)
CostEstimatorFile == File(<<"cost-controls">>, "cost-estimator", "js", <<Filler>>)
DeployWrapperFile ==
  File(<<>>, "deploy-with-cost-controls", "js",
       <<Filler, "AWSTemplateFormatVersion", Filler>>)
ConfigFile == File(<<>>, "cost-controls-config", "json", <<Filler>>)

\* the second definition generates five modules from one text
modules ==
  <<"budget-monitor", "resource-validator", "cost-estimator", "tag-enforcer",
    "lifecycle-manager">>
generateCostControlModule(moduleName) ==
  File(<<"node_modules", "@cost-controls">>, moduleName, "js",
       <<Filler, "AWS::EC2::Instance", Filler, "AWS::RDS::DBInstance", Filler,
         "AWS::S3::Bucket", "AWS::ElasticLoadBalancingV2", Filler>>)
QuickCostCheckFile == File(<<>>, "quick-cost-check", "sh", <<Filler>>)

\* copyCostControlModules: the files put in the cost-controls directory (the
\* template has no lib/types.ts next to the script, so none is copied)
copyCostControlModules ==
  IF definition = 1 THEN <<CostControlUtilsFile, CostEstimatorFile>>
  ELSE [i \in DOMAIN modules |-> generateCostControlModule(modules[i])]

\* fs.existsSync of a directory given by its components
DirectoryExists(dir) ==
  \/ JoinWith(dir, "/") \in files
  \/ \E e \in Range(tree) :
       Len(e.dir) >= Len(dir) /\ SubSeq(e.dir, 1, Len(dir)) = dir

\* the injection started without waiting for the analysis
InjectCostControls_NotAwaited ==
  /\ pc \in {"analyzeProject", "injectCostControls"}
  /\ tree' = WriteFiles(tree, copyCostControlModules \o <<DeployWrapperFile>>)
  /\ written' = written
       \cup {RelPath(f) : f \in Range(copyCostControlModules)}
       \cup {RelPath(DeployWrapperFile)}
  /\ pc' = "setupDeploymentScripts"
  /\ UNCHANGED <<files, packageJson, git, gitIgnore, configFile, config,
                 exitCode, errorMessage, result, invocation, runs, outside>>

\* the message of a file-system call that throws
WriteError == "EACCES: permission denied"

\* a call of step 3 throws, the first one (the directory cannot be made or
\* written to) or the last one (the wrapper cannot be written): the files
\* before it are written, the rest are not
InjectionFails ==
  LET all == copyCostControlModules \o <<DeployWrapperFile>>
  IN \E k \in {0, Len(all) - 1} :
       /\ tree' = WriteFiles(tree, SubSeq(all, 1, k))
       /\ written' = written
            \cup (IF DirectoryExists(costControlsDir) \/ k = 0 THEN {}
                  ELSE {JoinWith(costControlsDir, "/")})
            \cup {RelPath(all[i]) : i \in 1..k}
       /\ FailWith(WriteError)
       /\ UNCHANGED <<files, packageJson, git, gitIgnore, configFile, config,
                      result, invocation, runs, outside>>

\* Step 3: the cost-controls directory with its modules, then the wrapper
InjectCostControls ==
  /\ pc = "injectCostControls"
  /\ \/ /\ tree' = WriteFiles(tree, copyCostControlModules \o <<DeployWrapperFile>>)
        /\ written' = written
             \cup (IF DirectoryExists(costControlsDir) THEN {}
                   ELSE {JoinWith(costControlsDir, "/")})
             \cup {RelPath(f) : f \in Range(copyCostControlModules)}
             \cup {RelPath(DeployWrapperFile)}
        /\ pc' = "setupDeploymentScripts"
        /\ UNCHANGED <<files, packageJson, git, gitIgnore, configFile, config,
                       exitCode, errorMessage, result, invocation, runs, outside>>
     \/ InjectionFails

\* the scripts updatePackageJson adds
CostEstimateScript ==
  IF definition = 1 THEN "node cost-controls/cost-estimator.js"
  ELSE "node node_modules/@cost-controls/budget-monitor.js estimate"
CostReportScript ==
  IF definition = 1 THEN "echo \"Cost reports available in CloudWatch dashboard\""
  ELSE "node node_modules/@cost-controls/budget-monitor.js report"

\* a backup that is taken whenever there is a deploy script
updatePackageJson_AlwaysBackup(pkg) ==
  LET added == Put(Put(Put(pkg.scripts,
                 "deploy-with-cost-controls", "node deploy-with-cost-controls.js"),
                 "cost-estimate", CostEstimateScript),
                 "cost-report", CostReportScript)
      backedUp == IF Get(added, "deploy") \notin {Undefined, ""}
                  THEN Put(added, "deploy-original", added["deploy"])
                  ELSE added
  IN [pkg EXCEPT !.scripts = backedUp,
                 !.keys = @ \cup {"scripts", "devDependencies"}]

\* updatePackageJson: what a parsed package.json holds afterwards
updatePackageJson(pkg) ==
  LET added == Put(Put(Put(pkg.scripts,
                 "deploy-with-cost-controls", "node deploy-with-cost-controls.js"),
                 "cost-estimate", CostEstimateScript),
                 "cost-report", CostReportScript)
      backedUp == IF /\ Get(added, "deploy") \notin {Undefined, ""}
                     /\ Get(added, "deploy-original") \in {Undefined, ""}
                  THEN Put(added, "deploy-original", added["deploy"])
                  ELSE added
  IN [pkg EXCEPT !.scripts = backedUp,
                 !.keys = @ \cup {"scripts", "devDependencies"},
                 !.devDependencies =
                    IF definition = 1 THEN @
                    ELSE Put(@, "@cost-controls/aws-wrapper",
                             "file:node_modules/@cost-controls")]

\* createQuickCommands exists in the second definition only
createQuickCommands == IF definition = 1 THEN <<>> ELSE <<QuickCostCheckFile>>

\* Step 4
SetupDeploymentScripts ==
  /\ pc = "setupDeploymentScripts"
  /\ IF existsSync("package.json") /\ ~packageJson.parses THEN Fail("SyntaxError")
     ELSE /\ packageJson' = IF existsSync("package.json")
                            THEN updatePackageJson(packageJson)
                            ELSE packageJson
          /\ tree' = WriteFiles(tree, createQuickCommands)
          /\ written' = written
               \cup (IF existsSync("package.json") THEN {"package.json"} ELSE {})
               \cup {RelPath(f) : f \in Range(createQuickCommands)}
          /\ pc' = "createConfigurationFiles"
          /\ UNCHANGED <<files, git, gitIgnore, configFile, config,
                         exitCode, errorMessage, result, invocation, runs, outside>>

\* getResourceLimits: the table entry of the environment, dev's by default
getResourceLimits(environment) ==
  LET limits ==
        [dev |-> [maxInstanceTypes |-> <<"t3.micro", "t3.small">>,
                  maxVolumeSize |-> 100, maxMonthlyCost |-> 100],
         staging |-> [maxInstanceTypes |-> <<"t3.micro", "t3.small", "t3.medium">>,
                      maxVolumeSize |-> 500, maxMonthlyCost |-> 300],
         prod |-> [maxInstanceTypes |->
                     <<"t3.small", "t3.medium", "t3.large", "m5.large", "m5.xlarge">>,
                   maxVolumeSize |-> 2000, maxMonthlyCost |-> 1000]]
  IN IF environment \in DOMAIN limits THEN limits[environment] ELSE limits["dev"]

\* the address the second definition writes whatever the project says
HardcodedAlertEmail == "admin@company.com"

\* the document createConfigurationFiles serialises
costControlConfig(cfg) ==
  [projectName |-> Get(cfg, "projectName"),
   environment |-> Get(cfg, "environment"),
   costCenter |-> Get(cfg, "costCenter"),
   owner |-> Get(cfg, "owner"),
   budget |-> Get(cfg, "budget"),
   infrastructure |-> Get(cfg, "infrastructure"),
   alertEmail |-> IF definition = 1 THEN Get(cfg, "alertEmail")
                  ELSE HardcodedAlertEmail,
   autoShutdown |-> Get(cfg, "environment") # "prod",
   resourceLimits |-> getResourceLimits(Get(cfg, "environment")),
   tagging |-> [required |-> <<"Project", "Environment", "Owner", "CostCenter">>,
                automatic |-> TRUE],
   monitoring |-> [dashboard |-> TRUE, dailyReports |-> TRUE,
                   anomalyDetection |-> TRUE]]

GitIgnoreEntries ==
  <<"# Cost Control Template", "cost-control-stack.json", "deployment-report-*.json">>

\* existingContent.includes(entry): an entry holds no line break, so it occurs
\* in the content exactly when it occurs in one of the lines
ContentIncludes(lines, entry) ==
  \E i \in DOMAIN lines : Includes(lines[i], entry)

\* entries.join('\n') + '\n', as the text between line breaks: every entry and
\* the empty text after the last line break
JoinedLines(entries) ==
  [i \in DOMAIN entries |-> <<entries[i]>>] \o <<NoText>>

\* an updateGitIgnore that replaces the file it finds
updateGitIgnore_Overwrite(exists, lines) ==
  JoinedLines(GitIgnoreEntries)

\* updateGitIgnore: .gitignore afterwards, as the texts between its line
\* breaks (the last one is what follows the last line break)
updateGitIgnore(exists, lines) ==
  LET newEntries == SelectSeq(GitIgnoreEntries,
                              LAMBDA entry : ~ContentIncludes(lines, entry))
  IN IF ~exists THEN JoinedLines(GitIgnoreEntries)
     ELSE IF Len(newEntries) > 0 THEN lines \o JoinedLines(newEntries)
     ELSE lines

\* Step 5
CreateConfigurationFiles ==
  /\ pc = "createConfigurationFiles"
  /\ \/ /\ configFile' = costControlConfig(config)
        /\ tree' = WriteFile(tree, ConfigFile)
        /\ gitIgnore' = updateGitIgnore(existsSync(".gitignore"), gitIgnore)
        /\ files' = files \cup {".gitignore"}
        /\ written' = written \cup {RelPath(ConfigFile)}
             \cup (IF gitIgnore' # gitIgnore \/ ~existsSync(".gitignore")
                   THEN {".gitignore"} ELSE {})
        /\ pc' = "installDependencies"
        /\ UNCHANGED <<packageJson, git, config, exitCode, errorMessage, result,
                       invocation, runs, outside>>
     \/ Fail(WriteError)                    \* the configuration cannot be written
     \/ /\ configFile' = costControlConfig(config)   \* .gitignore cannot be
        /\ tree' = WriteFile(tree, ConfigFile)
        /\ written' = written \cup {RelPath(ConfigFile)}
        /\ FailWith(WriteError)
        /\ UNCHANGED <<files, packageJson, git, gitIgnore, config, result,
                       invocation, runs, outside>>

\* the process ends after the success message
Succeed ==
  /\ pc' = "done"
  /\ exitCode' = {0}

\* a step 6 that lets the failure of npm end the run
InstallDependencies_Rethrows ==
  /\ pc = "installDependencies"
  /\ \/ /\ existsSync("node_modules/aws-sdk")
        /\ Succeed
        /\ UNCHANGED <<inputs, written, errorMessage>>
     \/ /\ ~existsSync("node_modules/aws-sdk")
        /\ FailWith("Command failed: npm install aws-sdk --save-dev")
        /\ UNCHANGED <<inputs, written>>
  /\ UNCHANGED <<config, result, runs, outside>>

\* Step 6: `npm install aws-sdk --save-dev` unless node_modules/aws-sdk exists;
\* a failure of npm is caught and the run goes on
InstallDependencies ==
  /\ pc = "installDependencies"
  /\ Succeed
  /\ \/ /\ existsSync("node_modules/aws-sdk")
        /\ UNCHANGED <<inputs, written>>
     \/ /\ ~existsSync("node_modules/aws-sdk")
        /\ UNCHANGED <<inputs, written>>          \* npm failed
     \/ /\ ~existsSync("node_modules/aws-sdk")    \* npm succeeded
        /\ files' = files \cup {"node_modules/aws-sdk"}
        /\ tree' = WriteFile(tree, PackageJsonFile)
        /\ packageJson' =
             [packageJson EXCEPT
                !.keys = @ \cup {"devDependencies"},
                !.devDependencies = Put(@, "aws-sdk", Version)]
        /\ written' = written \cup {"node_modules/aws-sdk", "package.json"}
        /\ UNCHANGED <<git, gitIgnore, configFile, invocation>>
  /\ UNCHANGED <<config, errorMessage, result, runs, outside>>

\* how many times connect is started in one directory
MaxRuns == 2

\* the user runs the script again in the connected project: a new process
\* with a newly constructed connector
Reconnect ==
  /\ pc = "done"
  /\ runs < MaxRuns
  /\ runs' = runs + 1
  /\ config' = EmptyObject
  /\ written' = {}
  /\ exitCode' = {}
  /\ errorMessage' = ""
  /\ pc' = "analyzeProject"
  /\ UNCHANGED <<inputs, result, outside>>

\* command lines of the README's multi-environment setup
ArgvSamples ==
  { <<>>,
    <<"--environment", "dev", "--budget", "50">>,
    <<"--environment", "staging", "--budget", "200">>,
    <<"--environment", "prod", "--budget", "1000">> }

\* the deploy scripts a package.json comes with
ScriptSamples ==
  { EmptyObject,
    Put(EmptyObject, "deploy", "cdk deploy --all"),
    Put(Put(EmptyObject, "deploy", "cdk deploy --all"), "test", "jest"),
    Put(Put(EmptyObject, "deploy", "serverless deploy"),
        "deploy-original", "cdk deploy --all"),
    Put(Put(EmptyObject, "test", "jest"), "cdk:deploy", "cdk deploy --all") }

WithScripts(pkg, scripts) ==
  IF scripts = EmptyObject THEN pkg
  ELSE [pkg EXCEPT !.scripts = scripts, !.keys = @ \cup {"scripts"}]

\* the .gitignore a project comes with: none, or one of these (the second
\* does not end in a line break and names one of the entries inside a line)
GitIgnoreSamples ==
  { << <<"node_modules">>, NoText >>,
    << <<"node_modules">>, <<"!", "cost-control-stack.json">> >>,
    JoinedLines(GitIgnoreEntries) }

AppSourceFile == File(<<"src">>, "handler", "js", <<Filler>>)
AppStackFile == File(<<"lib">>, "app-stack", "ts", <<Filler, "Stack", Filler>>)
CdkJsonFile == File(<<>>, "cdk", "json", <<Filler>>)

\* projects that differ in what the steps after the analysis read
RunInputs ==
  /\ \E scripts \in ScriptSamples : packageJson = WithScripts(PlainManifest, scripts)
  /\ tree = <<PackageJsonFile, CdkJsonFile, AppSourceFile, AppStackFile>>
  /\ gitEmail \in {<<"dev", "@", "example.com", "\n">>, <<>>}
  /\ gitRemote = <<>>
  /\ configFile = EmptyObject
  /\ \/ files = {} /\ gitIgnore = <<>>
     \/ files = {".gitignore"} /\ gitIgnore \in GitIgnoreSamples
  /\ argv \in ArgvSamples

InitConnect ==
  /\ \/ /\ TypeInputs \/ InfraInputs \/ EmailInputs \/ NameInputs \/ ScanInputs
        /\ argv = <<>>
        /\ definition = 1
     \/ /\ RunInputs
        /\ definition \in {1, 2}
  /\ template = {"connect.js"}
  /\ Constructed
  /\ pc = "analyzeProject"

Next ==
  \/ AnalyzeProject
  \/ GatherConfiguration
  \/ InjectCostControls
  \/ SetupDeploymentScripts
  \/ CreateConfigurationFiles
  \/ InstallDependencies
  \/ Reconnect

Init == InitConnect

Spec == Init /\ [][Next]_vars

----------------------------------------------------------------------------
(* Properties of the connect() run (Spec) *)

NoManifest ==
  /\ ~TopLevel("package.json")
  /\ ~TopLevel("pom.xml")
  /\ ~TopLevel("requirements.txt")

GeneratedPaths ==
  {RelPath(CostControlUtilsFile), RelPath(CostEstimatorFile),
   RelPath(DeployWrapperFile), RelPath(ConfigFile), RelPath(QuickCostCheckFile)}
  \cup {RelPath(generateCostControlModule(modules[i])) : i \in DOMAIN modules}

NothingWritten ==
  /\ written = {}
  /\ configFile = EmptyObject
  /\ ".gitignore" \notin files
  /\ \A e \in Range(tree) : RelPath(e) \notin GeneratedPaths

\* C1: in a directory with none of package.json, pom.xml and requirements.txt
\* connect fails with the 'no project' error before any detection step has
\* run, the process ends with status 1, and nothing in the directory has been
\* created or modified
C1_NoProjectFailsBeforeDetection ==
  NoManifest =>
    /\ pc \in {"analyzeProject", "exited"}
    /\ config = EmptyObject
    /\ NothingWritten
    /\ pc = "exited" => (exitCode = {1} /\ errorMessage = NoProjectMessage)

C1_Witness ==
  /\ NoManifest
  /\ "go.mod" \in files
  /\ pc = "exited"
  /\ exitCode = {1}
  /\ errorMessage = NoProjectMessage

\* C5: when package.json exists but cannot be parsed, no exception escapes
\* the Inspector and the run continues instead of failing
C5_BrokenManifestRunContinues ==
  (existsSync("package.json") /\ ~packageJson.parses) => exitCode # {1}

----------------------------------------------------------------------------
(* Properties of the files a successful run leaves behind (Spec) *)

\* C11: after every successful run the alertEmail of cost-controls-config.json
\* is the alert email the Inspector resolves for the project (git email, else
\* the author's email of package.json, else the fallback)
C11_ConfigAlertEmailIsResolved ==
  pc = "done" => configFile.alertEmail = detectAlertEmail

----------------------------------------------------------------------------
(* Project name (SpecInspector) *)

\* sample outputs of `git config --get remote.origin.url`, each with the last
\* path component of the URL without a final ".git" ("" when the URL has no
\* "/" followed by a component)
RemoteNameSamples ==
  { [text |-> <<>>, name |-> ""],
    [text |-> ExecError, name |-> ""],
    [text |-> <<"https:", "/", "/", "github.com", "/", "acme", "/", "billing", ".git", "\n">>,
     name |-> "billing"],
    [text |-> <<"git", "@", "github.com:acme", "/", "billing", "\n">>, name |-> "billing"],
    [text |-> <<"https:", "/", "/", "github.com", "/", "acme", "/", "billing", "/", "\n">>,
     name |-> ""],
    [text |-> <<"git", "@", "host:billing", ".git", "\n">>, name |-> ""] }

RemoteSample == CHOOSE r \in RemoteNameSamples : r.text = gitRemote

\* the name field of package.json, "" when package.json gives none
ManifestName ==
  IF ParsedManifest /\ "name" \in packageJson.keys THEN packageJson.name ELSE ""

\* C12: detectProjectName returns the first non-empty candidate of: the name
\* field of package.json; the last path component of the git remote URL
\* without a final '.git'; the basename of the current directory
C12_FirstNonEmptyName ==
  (/\ pc = "detectProjectName"
   /\ existsSync("package.json") => packageJson.parses)
  => result = Return(IF ManifestName # "" THEN ManifestName
                     ELSE IF RemoteSample.name # "" THEN RemoteSample.name
                     ELSE "my-existing-project")

C12_Witness ==
  /\ pc = "detectProjectName"
  /\ existsSync("package.json")
  /\ ManifestName = ""
  /\ ".git" \in Range(gitRemote)
  /\ result = Return("billing")

C12_WitnessDirectory ==
  /\ pc = "detectProjectName"
  /\ ManifestName = ""
  /\ RemoteSample.name = ""
  /\ gitRemote # <<>>
  /\ result = Return("my-existing-project")

----------------------------------------------------------------------------
(* Order of the steps of connect() (Spec) *)

StepOrder ==
  <<"analyzeProject", "gatherConfiguration", "injectCostControls",
    "setupDeploymentScripts", "createConfigurationFiles", "installDependencies",
    "done">>

\* the project as it is on disk
project == <<files, tree, packageJson, gitIgnore, configFile>>

\* C13: connect runs its six steps one after another in the order analyze,
\* gather configuration, inject cost controls, set up deployment scripts,
\* create configuration files, install dependencies; a step starts only when
\* the previous one has finished (a failing step ends the run), and nothing
\* in the project is written before the analysis has completed successfully
C13_StepsRunInOrder ==
  [][/\ pc' # pc =>
          \/ \E i \in 1..(Len(StepOrder) - 1) :
               pc = StepOrder[i] /\ pc' = StepOrder[i + 1]
          \/ pc # "done" /\ pc' = "exited"
          \/ pc = "done" /\ pc' = "analyzeProject"
     /\ (project' # project \/ ~(written' \subseteq written)) =>
          /\ pc \notin {"analyzeProject", "gatherConfiguration"}
          /\ {"projectType", "infrastructure", "existingResources"}
               \subseteq DOMAIN config]_vars

C13_Witness ==
  /\ pc = "done"
  /\ exitCode = {0}
  /\ runs = 1
  /\ {"projectType", "projectName", "budget"} \subseteq DOMAIN config
  /\ {RelPath(DeployWrapperFile), "package.json", RelPath(ConfigFile),
      ".gitignore", "node_modules/aws-sdk"} \subseteq written

----------------------------------------------------------------------------
(* What connect() leaves alone (Spec) *)

\* the cost-control artefacts the README and the script name: files at the
\* top of the project, and the directories the modules are put in
ArtefactFiles ==
  {"deploy-with-cost-controls.js", "cost-controls-config.json", "quick-cost-check.sh"}
ArtefactDirectories == {"cost-controls", "node_modules"}

IsArtefact(e) ==
  \/ e.dir = <<>> /\ BaseName(e) \in ArtefactFiles
  \/ e.dir # <<>> /\ e.dir[1] \in ArtefactDirectories

ArtefactPaths ==
  ArtefactFiles
  \cup {"cost-controls", "cost-controls/cost-control-utils.js",
        "cost-controls/cost-estimator.js"}
  \cup {"node_modules/@cost-controls", "node_modules/aws-sdk"}
  \cup {"node_modules/@cost-controls/" \o m \o ".js" :
          m \in {"budget-monitor", "resource-validator", "cost-estimator",
                 "tag-enforcer", "lifecycle-manager"}}

----------------------------------------------------------------------------
(* The deploy script of package.json (Spec) *)

Script(pkg, name) == Get(pkg.scripts, name)

\* C15: scripts.deploy is never changed; when package.json has a deploy script
\* and no 'deploy-original', the step that updates package.json saves the
\* deploy command under 'deploy-original'; a 'deploy-original' that exists is
\* never overwritten, in this run or a later one; without a deploy script no
\* 'deploy-original' is added
C15_DeployOriginalKeepsFirstValue ==
  [][/\ Script(packageJson', "deploy") = Script(packageJson, "deploy")
     /\ Script(packageJson, "deploy-original") # Undefined =>
          Script(packageJson', "deploy-original") = Script(packageJson, "deploy-original")
     /\ Script(packageJson, "deploy") = Undefined =>
          Script(packageJson', "deploy-original") = Script(packageJson, "deploy-original")
     /\ (/\ pc = "setupDeploymentScripts"
         /\ pc' = "createConfigurationFiles"
         /\ existsSync("package.json")
         /\ Script(packageJson, "deploy") # Undefined
         /\ Script(packageJson, "deploy-original") = Undefined) =>
          Script(packageJson', "deploy-original") = Script(packageJson, "deploy")]_vars

C15_Witness ==
  /\ pc = "done"
  /\ runs = 2
  /\ Script(packageJson, "deploy") = "cdk deploy --all"
  /\ Script(packageJson, "deploy-original") = "cdk deploy --all"
  /\ Script(packageJson, "cost-estimate") # Undefined

C15_WitnessKept ==
  /\ pc = "done"
  /\ Script(packageJson, "deploy") = "serverless deploy"
  /\ Script(packageJson, "deploy-original") = "cdk deploy --all"

C15_WitnessNoDeploy ==
  /\ pc = "done"
  /\ Script(packageJson, "test") = "jest"
  /\ Script(packageJson, "deploy") = Undefined
  /\ Script(packageJson, "deploy-original") = Undefined

----------------------------------------------------------------------------
(* Command-line options of connect (Spec) *)

\* the number a --budget argument of the samples denotes
BudgetArgument == ("50" :> 50) @@ ("200" :> 200) @@ ("1000" :> 1000)

\* C16: a run started with --environment E --budget B writes a
\* cost-controls-config.json whose environment is E and whose budget is B
C16_OptionsReachConfigFile ==
  (/\ pc = "done"
   /\ Len(argv) = 4
   /\ argv[1] = "--environment"
   /\ argv[3] = "--budget")
  => /\ configFile.environment = argv[2]
     /\ configFile.budget = BudgetArgument[argv[4]]

----------------------------------------------------------------------------
(* The command-line entry point (src/index.js) *)

\* args[0]
command == IF argv = <<>> THEN Undefined ELSE argv[1]

\* the lines main logs before it dispatches
Banner == <<"AWS Cost Control Template v1.0.0">>

\* showUsage: the usage text, by its heading
showUsage == <<"Usage:">>

HelpCommands_NoShort == {"--help", "help"}

\* case '--help': case '-h': case 'help':
HelpCommands == {"--help", "-h", "help"}

\* the cases that run the connection script
ConnectCommands == {"connect", Undefined}

\* the first line the connection script logs (stdio is inherited)
ConnectBanner == "AWS Cost Control Template - Project Connection"

\* the output of scripts/demo.sh
DemoOutput == "demo.sh"

\* the entry point's process ends
Exit(status) ==
  /\ cliStatus' = {status}
  /\ pc' = "returned"

\* case 'connect' and case undefined, the script is there: execSync starts
\* `node scripts/connect.js` (no argument is passed on) and waits for it
MainConnect ==
  /\ pc = "main"
  /\ command \in ConnectCommands
  /\ "connect.js" \in template
  /\ stdout' = stdout \o Banner
       \o (IF command = "connect" THEN <<"Starting project connection...">>
           ELSE <<"No command specified. Defaulting to \"connect\"...">>)
       \o <<ConnectBanner>>
  /\ pc' = "analyzeProject"
  /\ UNCHANGED <<inputs, config, written, exitCode, errorMessage, result, runs,
                 cliStatus, cloud, wrapper>>

\* execSync returns when the script ended with status 0 and throws otherwise
ConnectReturned ==
  /\ pc \in {"done", "exited"}
  /\ cliStatus = {}
  /\ IF exitCode = {0}
     THEN /\ Exit(0)
          /\ UNCHANGED stdout
     ELSE /\ Exit(1)
          /\ stdout' = stdout \o <<"Connection failed:">>
               \o (IF command = "connect" THEN <<"Troubleshooting:">> ELSE showUsage)
  /\ UNCHANGED <<inputs, config, written, exitCode, errorMessage, result, runs,
                 cloud, wrapper>>

\* the script of the case is not in scripts/
MainScriptMissing ==
  /\ pc = "main"
  /\ \/ /\ command = "connect"
        /\ "connect.js" \notin template
        /\ stdout' = stdout \o Banner
             \o <<"Starting project connection...",
                  "Connection script not found. Please ensure the template is properly installed.">>
     \/ /\ command = Undefined
        /\ "connect.js" \notin template
        /\ stdout' = stdout \o Banner
             \o <<"No command specified. Defaulting to \"connect\"...",
                  "Connection script not found.">> \o showUsage
     \/ /\ command = "demo"
        /\ "demo.sh" \notin template
        /\ stdout' = stdout \o Banner
             \o <<"Running demonstration...", "Demo script not found.">>
  /\ Exit(1)
  /\ UNCHANGED <<inputs, config, written, exitCode, errorMessage, result, runs,
                 cloud, wrapper>>

\* case 'demo', the script is there: bash runs it; what it does is not part of
\* these sources, so it may end with any status
MainDemo ==
  /\ pc = "main"
  /\ command = "demo"
  /\ "demo.sh" \in template
  /\ \E status \in {0, 1, 2} :
       /\ exitCode' = {status}
       /\ Exit(IF status = 0 THEN 0 ELSE 1)
       /\ stdout' = stdout \o Banner \o <<"Running demonstration...", DemoOutput>>
            \o (IF status = 0 THEN <<>> ELSE <<"Demo failed:">>)
  /\ UNCHANGED <<inputs, config, written, errorMessage, result, runs, cloud, wrapper>>

MainHelp ==
  /\ pc = "main"
  /\ command \in HelpCommands
  /\ stdout' = stdout \o Banner \o showUsage
  /\ Exit(0)
  /\ UNCHANGED <<inputs, config, written, exitCode, errorMessage, result, runs,
                 cloud, wrapper>>

\* default:
MainUnknown ==
  /\ pc = "main"
  /\ command \notin ConnectCommands \cup {"demo"} \cup HelpCommands
  /\ stdout' = stdout \o Banner \o <<"Unknown command: " \o command>> \o showUsage
  /\ Exit(1)
  /\ UNCHANGED <<inputs, config, written, exitCode, errorMessage, result, runs,
                 cloud, wrapper>>

\* command lines the entry point is started with
CliArgvSamples ==
  { <<>>, <<"connect">>, <<"connect", "--environment", "staging", "--budget", "200">>,
    <<"demo">>, <<"--help">>, <<"-h">>, <<"help">>, <<"deploy">>, <<"Connect">>,
    <<"--version">> }

\* directories the entry point is started in
CliProjects ==
  /\ gitEmail = <<>>
  /\ gitRemote = <<>>
  /\ NoGeneratedFiles
  /\ \/ /\ files = {}
        /\ tree = <<>>
        /\ packageJson = PlainManifest
     \/ /\ files \in {{}, {"node_modules/aws-sdk"}}
        /\ tree = <<PackageJsonFile, CdkJsonFile>>
        /\ packageJson \in {PlainManifest, BrokenManifest}

InitCli ==
  /\ CliProjects
  /\ argv \in CliArgvSamples
  /\ template \in SUBSET {"connect.js", "demo.sh"}
  /\ definition \in {1, 2}
  /\ Constructed
  /\ pc = "main"

NextCli ==
  \/ MainConnect
  \/ MainScriptMissing
  \/ MainDemo
  \/ MainHelp
  \/ MainUnknown
  \/ AnalyzeProject
  \/ GatherConfiguration
  \/ InjectCostControls
  \/ SetupDeploymentScripts
  \/ CreateConfigurationFiles
  \/ InstallDependencies
  \/ ConnectReturned

SpecCli == InitCli /\ [][NextCli]_vars

Logged(line) == line \in Range(stdout)

\* C17: the entry point dispatches on its first argument: 'connect' or no
\* argument runs the connection script, 'demo' runs the demo script, '--help',
\* '-h' and 'help' print the usage and end with status 0, anything else prints
\* 'Unknown command' with the usage and ends with status 1; when the script
\* to run is missing or ends with a failure the entry point ends with status 1
C17_CliDispatch ==
  pc = "returned" =>
    /\ (argv = <<>> \/ argv[1] = "connect") =>
         IF "connect.js" \in template
         THEN /\ Logged(ConnectBanner)
              /\ exitCode # {}
              /\ cliStatus = (IF exitCode = {0} THEN {0} ELSE {1})
         ELSE /\ ~Logged(ConnectBanner)
              /\ config = EmptyObject
              /\ cliStatus = {1}
    /\ (argv # <<>> /\ argv[1] = "demo") =>
         /\ ~Logged(ConnectBanner)
         /\ IF "demo.sh" \in template
            THEN /\ Logged(DemoOutput)
                 /\ cliStatus = (IF exitCode = {0} THEN {0} ELSE {1})
            ELSE /\ ~Logged(DemoOutput)
                 /\ cliStatus = {1}
    /\ (argv # <<>> /\ argv[1] \in {"--help", "-h", "help"}) =>
         /\ Logged("Usage:")
         /\ ~Logged(ConnectBanner) /\ ~Logged(DemoOutput)
         /\ cliStatus = {0}
    /\ (argv # <<>> /\ argv[1] \notin {"connect", "demo", "--help", "-h", "help"}) =>
         /\ Logged("Unknown command: " \o argv[1])
         /\ Logged("Usage:")
         /\ ~Logged(ConnectBanner) /\ ~Logged(DemoOutput)
         /\ cliStatus = {1}

C17_Witness ==
  /\ pc = "returned"
  /\ argv = <<"deploy">>
  /\ Logged("Unknown command: deploy")
  /\ cliStatus = {1}

C17_WitnessConnectFailed ==
  /\ pc = "returned"
  /\ argv = <<>>
  /\ exitCode = {1}
  /\ errorMessage = NoProjectMessage
  /\ cliStatus = {1}

C17_WitnessConnected ==
  /\ pc = "returned"
  /\ argv # <<>>
  /\ argv[1] = "connect"
  /\ exitCode = {0}
  /\ "cost-controls-config.json" \in written
  /\ cliStatus = {0}

C17_WitnessHelp ==
  /\ pc = "returned"
  /\ argv = <<"-h">>
  /\ cliStatus = {0}

----------------------------------------------------------------------------
(* The CDK app (src/bin/app.ts), the deploy script and the deployed stacks *)

\* JavaScript's a || b for strings, and the shell's ${a:-b}
Or(a, b) == IF a \in {Undefined, ""} THEN b ELSE a

\* what the connector's variables hold while only the CDK app is looked at
NoProject ==
  /\ files = {}
  /\ tree = <<>>
  /\ packageJson = PlainManifest
  /\ gitEmail = <<>>
  /\ gitRemote = <<>>
  /\ NoGeneratedFiles
  /\ config = EmptyObject
  /\ written = {}
  /\ exitCode = {}
  /\ errorMessage = ""
  /\ result = NoCall
  /\ definition = 1
  /\ argv = <<>>
  /\ template = {"connect.js"}
  /\ runs = 1
  /\ stdout = <<>>
  /\ cliStatus = {}
  /\ wrapper = NotStarted

connector ==
  <<inputs, config, pc, written, exitCode, errorMessage, result, runs, stdout,
    cliStatus, wrapper>>

DefaultProjectName == "cost-control-demo"

\* Budget limits by environment
budgetLimits ==
  ("dev" :> 100) @@ ("staging" :> 300) @@ ("prod" :> 1000) @@ ("qa" :> 150)

\* budgetLimits[environment] || 100
DefaultBudgetLimit == 100

ENVIRONMENT_CONFIGS ==
  ("dev" :> [maxInstanceTypes |-> <<"t3.micro", "t3.small">>,
             maxStorageSize |-> 100,
             autoShutdown |-> TRUE, weekendShutdown |-> TRUE])
  @@ ("staging" :> [maxInstanceTypes |-> <<"t3.micro", "t3.small", "t3.medium">>,
                    maxStorageSize |-> 500,
                    autoShutdown |-> TRUE, weekendShutdown |-> FALSE])
  @@ ("prod" :> [maxInstanceTypes |->
                   <<"t3.small", "t3.medium", "t3.large", "m5.large", "m5.xlarge">>,
                 maxStorageSize |-> 2000,
                 autoShutdown |-> FALSE, weekendShutdown |-> FALSE])
  @@ ("qa" :> [maxInstanceTypes |-> <<"t3.micro", "t3.small", "t3.medium">>,
               maxStorageSize |-> 200,
               autoShutdown |-> TRUE, weekendShutdown |-> TRUE])

\* ENVIRONMENT_CONFIGS[environment] || ENVIRONMENT_CONFIGS.dev
envConfig(environment) ==
  IF environment \in DOMAIN ENVIRONMENT_CONFIGS
  THEN ENVIRONMENT_CONFIGS[environment]
  ELSE ENVIRONMENT_CONFIGS["dev"]

BUDGET_THRESHOLDS == [WARNING |-> 50, CRITICAL |-> 80, EMERGENCY |-> 100]

\* the threshold of the forecast notification
ForecastThreshold == 90

\* the notifications of the project budget, each with the topic it goes to
notificationsWithSubscribers ==
  << [notificationType |-> "ACTUAL", threshold |-> BUDGET_THRESHOLDS.WARNING,
      topic |-> "budgetAlarmTopic"],
     [notificationType |-> "ACTUAL", threshold |-> BUDGET_THRESHOLDS.CRITICAL,
      topic |-> "emergencyActionTopic"],
     [notificationType |-> "ACTUAL", threshold |-> BUDGET_THRESHOLDS.EMERGENCY,
      topic |-> "emergencyActionTopic"],
     [notificationType |-> "FORECASTED", threshold |-> ForecastThreshold,
      topic |-> "budgetAlarmTopic"] >>

\* who is subscribed to the two topics of the BudgetStack
subscriptions(ctx) ==
  [budgetAlarmTopic |-> {"email", "budgetResponseFunction"},
   emergencyActionTopic |->
     {"email"} \cup (IF Get(ctx, "alertPhone") \in {Undefined, ""} THEN {} ELSE {"sms"})]

\* the shutdown rules the AutomationStack schedules
shutdownRules(environment) ==
  IF envConfig(environment).autoShutdown
  THEN {"daily-shutdown"}
       \cup (IF envConfig(environment).weekendShutdown THEN {"weekend-shutdown"} ELSE {})
  ELSE {}

\* bin/app.ts: what the app hands to its stacks, and what they create
App(ctx, env) ==
  LET projectName ==
        Or(Get(ctx, "projectName"), Or(Get(env, "PROJECT_NAME"), DefaultProjectName))
      environment == Or(Get(ctx, "environment"), Or(Get(env, "ENVIRONMENT"), "dev"))
      budget == IF environment \in DOMAIN budgetLimits THEN budgetLimits[environment]
                ELSE DefaultBudgetLimit
  IN [projectName |-> projectName,
      environment |-> environment,
      budget |-> [CostControl |-> budget, Budget |-> budget, Monitoring |-> budget],
      budgetLimit |-> budget,
      notifications |-> notificationsWithSubscribers,
      subscriptions |-> subscriptions(ctx),
      rules |-> shutdownRules(environment)]

\* `cdk deploy --context ...` run by the user
CdkDeploy ==
  /\ stacks = EmptyObject
  /\ stacks' = App(context, processEnv)
  /\ alerts' = [n \in DOMAIN notificationsWithSubscribers |-> "armed"]
  /\ UNCHANGED <<connector, context, processEnv, instances, spend, log>>

\* the deploy script: BUDGET, when not given, by the environment
ScriptBudget(env) ==
  LET ENVIRONMENT == Or(Get(env, "ENVIRONMENT"), "dev")
  IN IF Get(env, "BUDGET") \notin {Undefined, ""} THEN env["BUDGET"]
     ELSE IF ENVIRONMENT = "dev" THEN "100"
     ELSE IF ENVIRONMENT = "staging" THEN "300"
     ELSE IF ENVIRONMENT = "qa" THEN "150"
     ELSE IF ENVIRONMENT = "prod" THEN "1000"
     ELSE "100"

\* CDK_CONTEXT of the deploy script
ScriptContext(env) ==
  [projectName |-> Or(Get(env, "PROJECT_NAME"), DefaultProjectName),
   environment |-> Or(Get(env, "ENVIRONMENT"), "dev"),
   costCenter |-> Or(Get(env, "COST_CENTER"), "engineering"),
   owner |-> Or(Get(env, "OWNER"), "devops-team"),
   alertEmail |-> Or(Get(env, "ALERT_EMAIL"), "devops@company.com")]

\* the deploy script with its prerequisites met: `cdk deploy --all $CDK_CONTEXT`
\* and the deployment report
DeployScript ==
  /\ stacks = EmptyObject
  /\ stacks' = App(ScriptContext(processEnv), processEnv)
  /\ alerts' = [n \in DOMAIN notificationsWithSubscribers |-> "armed"]
  /\ log' = log \cup {[function |-> "deploy.sh", budget |-> ScriptBudget(processEnv)]}
  /\ UNCHANGED <<connector, context, processEnv, instances, spend>>

----------------------------------------------------------------------------
(* The account: instances, spend, budget notifications, Lambda functions *)

Instance(service, environment, autoShutdown, state) ==
  [service |-> service,
   tags |-> [Project |-> DefaultProjectName, Environment |-> environment,
             AutoShutdown |-> autoShutdown],
   state |-> state]

\* the instances of the project in its three environments
Fleet ==
  ("i-dev" :> Instance("ec2", "dev", "true", "running"))
  @@ ("i-dev-untagged" :> Instance("ec2", "dev", Undefined, "running"))
  @@ ("db-dev" :> Instance("rds", "dev", "true", "available"))
  @@ ("db-dev-True" :> Instance("rds", "dev", "True", "available"))
  @@ ("i-staging" :> Instance("ec2", "staging", "true", "running"))
  @@ ("db-staging" :> Instance("rds", "staging", "true", "available"))
  @@ ("i-prod" :> Instance("ec2", "prod", "true", "running"))
  @@ ("db-prod" :> Instance("rds", "prod", "true", "available"))

\* String.prototype.toLowerCase on the tag values of the fleet
toLowerCase(value) ==
  IF value \in {"True", "TRUE"} THEN "true"
  ELSE IF value \in {"Yes", "YES"} THEN "yes"
  ELSE value

AutoShutdownValues == {"true", "yes", "1"}

\* the filters of ec2.describeInstances
Ec2Matches(i, projectName, environment) ==
  /\ i.service = "ec2"
  /\ i.tags.Project = projectName
  /\ i.tags.Environment = environment
  /\ i.tags.AutoShutdown \in AutoShutdownValues
  /\ i.state = "running"

\* the tag test made on each DB instance
RdsMatches(i, projectName, environment) ==
  /\ i.service = "rds"
  /\ i.tags.Project = projectName
  /\ i.tags.Environment = environment
  /\ i.tags.AutoShutdown # Undefined
  /\ toLowerCase(i.tags.AutoShutdown) \in AutoShutdownValues

Stop(insts, ids) ==
  [id \in DOMAIN insts |->
     IF id \in ids THEN [insts[id] EXCEPT !.state = "stopped"] ELSE insts[id]]

\* emergencyShutdown of the budget-response function: the tagged running EC2
\* instances, then every tagged DB instance; rds.stopDBInstance rejects an
\* instance that is not available and the function ends with that error
emergencyShutdown(insts, projectName, environment) ==
  LET ec2 == {id \in DOMAIN insts : Ec2Matches(insts[id], projectName, environment)}
      rds == {id \in DOMAIN insts : RdsMatches(insts[id], projectName, environment)}
      rejected == {id \in rds : insts[id].state # "available"}
  IN [instances |-> Stop(insts, ec2 \cup (IF rejected = {} THEN rds ELSE {})),
      branch |-> IF rejected = {} THEN "emergencyShutdown" ELSE "failed"]

\* a handler that shuts down whatever the environment is
budgetResponse_AnyEnvironment(message, insts, projectName, environment) ==
  IF ~message.parses THEN [instances |-> insts, branch |-> "failed"]
  ELSE IF message.thresholdPercentage >= 90
  THEN emergencyShutdown(insts, projectName, environment)
  ELSE IF message.thresholdPercentage >= 80
  THEN [instances |-> insts, branch |-> "criticalCostReduction"]
  ELSE IF message.thresholdPercentage >= 50
  THEN [instances |-> insts, branch |-> "warningActions"]
  ELSE [instances |-> insts, branch |-> "none"]

\* exports.handler of the budget-response function
budgetResponse(message, insts, projectName, environment) ==
  IF ~message.parses THEN [instances |-> insts, branch |-> "failed"]
  ELSE IF message.thresholdPercentage >= 90 /\ environment = "dev"
  THEN emergencyShutdown(insts, projectName, environment)
  ELSE IF message.thresholdPercentage >= 80
  THEN [instances |-> insts, branch |-> "criticalCostReduction"]
  ELSE IF message.thresholdPercentage >= 50
  THEN [instances |-> insts, branch |-> "warningActions"]
  ELSE [instances |-> insts, branch |-> "none"]

\* what the handler can make of the text AWS Budgets publishes for a
\* notification: not JSON, JSON without a number in MessageType, or JSON whose
\* MessageType carries the threshold
Messages(n) ==
  { [parses |-> FALSE, thresholdPercentage |-> 0],
    [parses |-> TRUE, thresholdPercentage |-> 0],
    [parses |-> TRUE, thresholdPercentage |-> stacks.notifications[n].threshold] }

\* the levels the month's spend is observed at, in percent of the limit
SpendLevels == {60, 85, 110}

Spend(p) ==
  /\ stacks # EmptyObject
  /\ p > spend
  /\ spend' = p
  /\ UNCHANGED <<connector, context, processEnv, stacks, instances, alerts, log>>

\* AWS Budgets publishes an ACTUAL notification once the spend is GREATER_THAN
\* its threshold
BudgetNotifies(n) ==
  /\ stacks # EmptyObject
  /\ alerts[n] = "armed"
  /\ stacks.notifications[n].notificationType = "ACTUAL"
  /\ spend > stacks.notifications[n].threshold
  /\ alerts' = [alerts EXCEPT ![n] = "published"]
  /\ UNCHANGED <<connector, context, processEnv, stacks, instances, spend, log>>

\* a FORECASTED notification is published when AWS's forecast, which the
\* sources do not determine, passes the threshold
ForecastNotifies(n) ==
  /\ stacks # EmptyObject
  /\ alerts[n] = "armed"
  /\ stacks.notifications[n].notificationType = "FORECASTED"
  /\ alerts' = [alerts EXCEPT ![n] = "published"]
  /\ UNCHANGED <<connector, context, processEnv, stacks, instances, spend, log>>

\* SNS delivers a published notification to the subscribers of its topic; the
\* budget-response function runs when it is one of them
Deliver(n) ==
  /\ stacks # EmptyObject
  /\ alerts[n] = "published"
  /\ alerts' = [alerts EXCEPT ![n] = "delivered"]
  /\ LET topic == stacks.notifications[n].topic
     IN IF "budgetResponseFunction" \in stacks.subscriptions[topic]
        THEN \E message \in Messages(n) :
               LET done == budgetResponse(message, instances, stacks.projectName,
                                          stacks.environment)
               IN /\ instances' = done.instances
                  /\ log' = log \cup {[function |-> "budget-response",
                                       notification |-> n, branch |-> done.branch]}
        ELSE /\ instances' = instances
             /\ log' = log \cup {[function |-> "email", notification |-> n,
                                  branch |-> "none"]}
  /\ UNCHANGED <<connector, context, processEnv, stacks, spend>>

\* exports.handler of the auto-shutdown function
autoShutdown(insts, projectName, environment) ==
  LET ec2 == {id \in DOMAIN insts : Ec2Matches(insts[id], projectName, environment)}
      rds == {id \in DOMAIN insts :
                /\ insts[id].state = "available"
                /\ RdsMatches(insts[id], projectName, environment)}
  IN IF environment \in {"dev", "qa"} THEN Stop(insts, ec2 \cup rds) ELSE insts

\* a shutdown rule of the AutomationStack fires and invokes the function
ShutdownRule(rule, shutdownType) ==
  /\ stacks # EmptyObject
  /\ rule \in stacks.rules
  /\ instances' = autoShutdown(instances, stacks.projectName, stacks.environment)
  /\ log' = log \cup {[function |-> "auto-shutdown", shutdownType |-> shutdownType]}
  /\ UNCHANGED <<connector, context, processEnv, stacks, spend, alerts>>

DailyShutdownRule == ShutdownRule("daily-shutdown", "daily")
WeekendShutdownRule == ShutdownRule("weekend-shutdown", "weekend")

\* the --context values and environment variables of a deployment
ContextSamples ==
  {ctx \in UNION {[ks -> {"dev", "staging", "prod", "qa", "test", "500"}] :
                    ks \in SUBSET {"environment", "budget"}} :
     /\ "environment" \in DOMAIN ctx => ctx["environment"] # "500"
     /\ "budget" \in DOMAIN ctx => ctx["budget"] = "500"}

ProcessEnvSamples ==
  {env \in UNION {[ks -> {"staging", "500"}] :
                    ks \in SUBSET {"ENVIRONMENT", "BUDGET"}} :
     /\ "ENVIRONMENT" \in DOMAIN env => env["ENVIRONMENT"] = "staging"
     /\ "BUDGET" \in DOMAIN env => env["BUDGET"] = "500"}

InitCloud ==
  /\ NoProject
  /\ pc = "cloud"
  /\ context \in ContextSamples
  /\ processEnv \in ProcessEnvSamples
  /\ stacks = EmptyObject
  /\ instances = Fleet
  /\ spend = 0
  /\ alerts = <<>>
  /\ log = {}

NextCloud ==
  \/ CdkDeploy
  \/ DeployScript
  \/ \E p \in SpendLevels : Spend(p)
  \/ \E n \in DOMAIN notificationsWithSubscribers : BudgetNotifies(n)
  \/ \E n \in DOMAIN notificationsWithSubscribers : ForecastNotifies(n)
  \/ \E n \in DOMAIN notificationsWithSubscribers : Deliver(n)
  \/ DailyShutdownRule
  \/ WeekendShutdownRule

\* AWS Budgets evaluates its notifications and SNS delivers what is published
SpecCloud ==
  /\ InitCloud
  /\ [][NextCloud]_vars
  /\ \A n \in DOMAIN notificationsWithSubscribers :
       WF_vars(BudgetNotifies(n)) /\ WF_vars(Deliver(n))


----------------------------------------------------------------------------
(* C18 *)

\* the number a --context budget value stands for
ContextBudget == ("500" :> 500)

DeployedByCdk ==
  /\ stacks # EmptyObject
  /\ \A entry \in log : entry.function # "deploy.sh"

\* C18: after `cdk deploy --context budget=N` the budget passed to the
\* CostControl, Budget and Monitoring stacks is N, whatever the default of the
\* environment is.
C18_ContextBudgetOverridesDefault ==
  (DeployedByCdk /\ "budget" \in DOMAIN context)
    => \A stack \in {"CostControl", "Budget", "Monitoring"} :
         stacks.budget[stack] = ContextBudget[context["budget"]]


----------------------------------------------------------------------------
(* C19 *)

\* the notification for actual spend over the emergency threshold
EmergencyNotification ==
  CHOOSE n \in DOMAIN notificationsWithSubscribers :
    /\ notificationsWithSubscribers[n].notificationType = "ACTUAL"
    /\ notificationsWithSubscribers[n].threshold = BUDGET_THRESHOLDS.EMERGENCY

\* the project's EC2 and RDS resources of an environment tagged for auto-shutdown
TaggedForAutoShutdown(environment) ==
  {id \in DOMAIN instances :
     /\ instances[id].tags.Project = stacks.projectName
     /\ instances[id].tags.Environment = environment
     /\ instances[id].tags.AutoShutdown \in AutoShutdownValues}

\* C19: in dev, with actual spend over the emergency threshold (100%), the
\* delivery of the emergency budget notification invokes the budget-response
\* function, and the function stops the project's EC2 and RDS resources tagged
\* for auto-shutdown.
C19_EmergencyNotificationShutsDevDown ==
  [][(/\ stacks # EmptyObject
      /\ stacks.environment = "dev"
      /\ spend > BUDGET_THRESHOLDS.EMERGENCY
      /\ alerts[EmergencyNotification] = "published"
      /\ alerts'[EmergencyNotification] = "delivered")
     => /\ \E entry \in log' \ log :
             /\ entry.function = "budget-response"
             /\ entry.notification = EmergencyNotification
        /\ \A id \in TaggedForAutoShutdown("dev") : instances'[id].state = "stopped"]_vars


----------------------------------------------------------------------------
(* C20 *)

\* the scheduled daily event has just invoked the auto-shutdown function
DailyEventFired ==
  \E entry \in log' \ log :
    entry.function = "auto-shutdown" /\ entry.shutdownType = "daily"

\* C20: in staging, when the scheduled daily event fires, the auto-shutdown
\* function stops the project's running EC2 and available RDS instances tagged
\* for auto-shutdown; a prod deployment has no shutdown schedule.
C20_StagingDailyShutdownTakesEffect ==
  [][/\ (stacks # EmptyObject /\ stacks.environment = "staging" /\ DailyEventFired)
          => \A id \in TaggedForAutoShutdown("staging") :
               instances[id].state \in {"running", "available"}
                 => instances'[id].state = "stopped"
     /\ (stacks' # EmptyObject /\ stacks'.environment = "prod") => stacks'.rules = {}]_vars


----------------------------------------------------------------------------
(* The generated wrapper deploy-with-cost-controls.js, as the first          *)
(* definition of the class writes it, run in the project after connect       *)

\* a validation that is strict about the limit
validateBudget_Strict(estimatedCost, document) ==
  [isValid |-> "budget" \in DOMAIN document /\ estimatedCost < document["budget"],
   estimatedCost |-> estimatedCost]

\* validateBudget(estimatedCost, config.budget) of cost-control-utils.js;
\* a comparison with the undefined budget of a document without one is false
validateBudget(estimatedCost, document) ==
  [isValid |-> "budget" \in DOMAIN document /\ estimatedCost <= document["budget"],
   estimatedCost |-> estimatedCost]

EchoCommand ==
  "echo \"Please configure your deployment command in package.json scripts.deploy\""

\* detectDeployCommand
detectDeployCommand ==
  IF Get(packageJson.scripts, "deploy") \notin {Undefined, ""} THEN "npm run deploy"
  ELSE IF Get(packageJson.scripts, "cdk:deploy") \notin {Undefined, ""}
  THEN "npm run cdk:deploy"
  ELSE IF existsSync("cdk.json") THEN "cdk deploy --all"
  ELSE IF existsSync("serverless.yml") THEN "serverless deploy"
  ELSE EchoCommand

\* deployCommand.includes('echo'), for the commands detectDeployCommand returns
IncludesEcho(deployCommand) == deployCommand = EchoCommand

\* the estimates of the wrapper
DefaultEstimate == 25
CdkEstimate == 50
ServerlessEstimate == 15

\* an estimate that adds what the code assigns
estimatedCost_Added ==
  DefaultEstimate
    + (IF existsSync("cdk.json") THEN CdkEstimate ELSE 0)
    + (IF existsSync("serverless.yml") THEN ServerlessEstimate ELSE 0)

estimatedCost ==
  IF existsSync("cdk.json") THEN CdkEstimate
  ELSE IF existsSync("serverless.yml") THEN ServerlessEstimate
  ELSE DefaultEstimate

\* process.exit(status) of the wrapper
WrapperExit(status) == [wrapper EXCEPT !.pc = "exited", !.status = {status}]

\* `npm run deploy-with-cost-controls`, up to the validation: the config is
\* loaded, the deploy command detected, the cost estimated and validated; an
\* exception is caught and ends the process with status 1, and so does a
\* validation that fails
WrapperValidates ==
  /\ definition = 1
  /\ pc \in {"done", "exited"}
  /\ wrapper.pc = "idle"
  /\ existsSync(RelPath(DeployWrapperFile))
  /\ wrapper' =
       IF configFile = EmptyObject THEN WrapperExit(1)
       ELSE IF ~existsSync("package.json") \/ ~packageJson.parses THEN WrapperExit(1)
       ELSE LET validation == validateBudget(estimatedCost, configFile)
                checked == [wrapper EXCEPT !.deployCommand = detectDeployCommand,
                                           !.validated = TRUE,
                                           !.estimatedCost = validation.estimatedCost,
                                           !.isValid = validation.isValid]
            IN IF ~validation.isValid
               THEN [checked EXCEPT !.pc = "exited", !.status = {1}]
               ELSE [checked EXCEPT !.pc = "deploy"]
  /\ UNCHANGED <<inputs, config, pc, written, exitCode, errorMessage, result, runs,
                 stdout, cliStatus, cloud>>

\* the application is deployed: execSync(deployCommand) unless the command is
\* the echo of a project without one; execSync throws when the command fails
WrapperDeploys ==
  /\ wrapper.pc = "deploy"
  /\ IF IncludesEcho(wrapper.deployCommand)
     THEN wrapper' = WrapperExit(0)
     ELSE \E status \in {0, 1} :
            wrapper' = [WrapperExit(status) EXCEPT
                          !.executed = Append(@, wrapper.deployCommand)]
  /\ UNCHANGED <<inputs, config, pc, written, exitCode, errorMessage, result, runs,
                 stdout, cliStatus, cloud>>

\* budgets a user changes the written configuration to
BudgetEdits == {10, 25, 50}

\* the configuration file is as the run wrote it
AsWritten == configFile # EmptyObject /\ configFile = costControlConfig(config)

\* the user edits the budget of cost-controls-config.json
EditBudget(b) ==
  /\ pc = "done"
  /\ wrapper.pc = "idle"
  /\ AsWritten
  /\ configFile' = Put(configFile, "budget", b)
  /\ UNCHANGED <<files, packageJson, tree, git, gitIgnore, invocation, config, pc,
                 written, exitCode, errorMessage, result, runs, outside>>

\* the user deletes the budget from cost-controls-config.json
RemoveBudget ==
  /\ pc = "done"
  /\ wrapper.pc = "idle"
  /\ AsWritten
  /\ configFile' = [k \in DOMAIN configFile \ {"budget"} |-> configFile[k]]
  /\ UNCHANGED <<files, packageJson, tree, git, gitIgnore, invocation, config, pc,
                 written, exitCode, errorMessage, result, runs, outside>>

InitWrapper ==
  /\ InitConnect
  /\ definition = 1

NextWrapper ==
  \/ AnalyzeProject
  \/ GatherConfiguration
  \/ InjectCostControls
  \/ SetupDeploymentScripts
  \/ CreateConfigurationFiles
  \/ InstallDependencies
  \/ \E b \in BudgetEdits : EditBudget(b)
  \/ RemoveBudget
  \/ WrapperValidates
  \/ WrapperDeploys

SpecWrapper == InitWrapper /\ [][NextWrapper]_vars


----------------------------------------------------------------------------
(* C21 *)

\* C21: the wrapper executes the deploy command only after its cost
\* validation passed; the validation is valid exactly when the estimate is at
\* most the budget of the configuration; and with an estimate over the budget
\* the wrapper has ended with status 1 and executed nothing.
C21_DeployOnlyAfterValidation ==
  /\ wrapper.executed # <<>> => wrapper.validated /\ wrapper.isValid
  /\ wrapper.validated =>
       (wrapper.isValid <=>
          ("budget" \in DOMAIN configFile
           /\ wrapper.estimatedCost <= configFile["budget"]))
  /\ (/\ wrapper.validated
      /\ "budget" \in DOMAIN configFile
      /\ wrapper.estimatedCost > configFile["budget"])
       => wrapper.status = {1} /\ wrapper.executed = <<>>

\* a deployment that ran, the estimate being exactly the budget
C21_Witness ==
  /\ wrapper.executed # <<>>
  /\ wrapper.estimatedCost = configFile["budget"]

\* a deployment blocked by the validation
C21_WitnessBlocked ==
  /\ wrapper.validated
  /\ wrapper.estimatedCost > configFile["budget"]
  /\ wrapper.status = {1}


----------------------------------------------------------------------------
(* C22 *)

\* the mentions of one file of the project for one category, whichever of
\* its paths find printed
PairsOf(e, type, mentions) ==
  {i \in DOMAIN mentions :
     /\ mentions[i].type = type
     /\ \E d \in DOMAIN scanDirs : mentions[i].file = FoundPath(e, scanDirs[d])}

\* C22: in one run a file contributes at most one pair per category to
\* resourceMentions, so that no file is counted twice for one category toward
\* the more-than-10 threshold of the budget.
C22_OnePairPerFileAndCategory ==
  pc = "detectExistingResources" =>
    \A e \in Range(tree) : \A type \in ResourceTypes :
      Cardinality(PairsOf(e, type, result.value)) <= 1


----------------------------------------------------------------------------
(* The budget-response function invoked with one SNS event (SpecHandler) *)

\* parseFloat on the runs of digits of the sample messages; in a text a run of
\* digits is a lexeme of its own
parseFloat ==
  ("0" :> 0) @@ ("49" :> 49) @@ ("50" :> 50) @@ ("79" :> 79) @@ ("80" :> 80)
  @@ ("89" :> 89) @@ ("90" :> 90) @@ ("100" :> 100) @@ ("110" :> 110)

\* MessageType?.match(/\d+/)?.[0]: the first run of digits, if any
FirstDigits(text) ==
  LET runs_ == {i \in DOMAIN text : text[i] \in DOMAIN parseFloat}
  IN IF text = Undefined \/ runs_ = {} THEN Undefined
     ELSE text[CHOOSE i \in runs_ : \A j \in runs_ : i <= j]

\* JSON.parse of the SNS message and the threshold percentage read from it
ParseEvent(event) ==
  [parses |-> event.json,
   thresholdPercentage |->
     IF event.json THEN parseFloat[Or(FirstDigits(Get(event, "MessageType")), "0")]
     ELSE 0]

\* SNS messages, each with the percentage a reader finds in it
BudgetEventSamples ==
  { [event |-> [json |-> FALSE], p |-> 0],
    [event |-> [json |-> TRUE], p |-> 0],
    [event |-> [json |-> TRUE, MessageType |-> <<"Budget notification">>], p |-> 0],
    [event |-> [json |-> TRUE, MessageType |-> <<"ACTUAL ", "49", "%">>], p |-> 49],
    [event |-> [json |-> TRUE, MessageType |-> <<"ACTUAL ", "50", "%">>], p |-> 50],
    [event |-> [json |-> TRUE, MessageType |-> <<"50", "% of ", "100">>], p |-> 50],
    [event |-> [json |-> TRUE, MessageType |-> <<"ACTUAL ", "79", "%">>], p |-> 79],
    [event |-> [json |-> TRUE, MessageType |-> <<"ACTUAL ", "80", "%">>], p |-> 80],
    [event |-> [json |-> TRUE, MessageType |-> <<"ACTUAL ", "89", "%">>], p |-> 89],
    [event |-> [json |-> TRUE, MessageType |-> <<"FORECASTED ", "90", "%">>], p |-> 90],
    [event |-> [json |-> TRUE, MessageType |-> <<"ACTUAL ", "100", "%">>], p |-> 100],
    [event |-> [json |-> TRUE, MessageType |-> <<"ACTUAL ", "110", "%">>], p |-> 110] }

\* the function is invoked with an event published to its topic, once in a
\* behaviour
HandleBudgetEvent(event) ==
  /\ stacks # EmptyObject
  /\ \A entry \in log : entry.function # "budget-response"
  /\ LET done == budgetResponse(ParseEvent(event), instances, stacks.projectName,
                                stacks.environment)
     IN /\ instances' = done.instances
        /\ log' = log \cup {[function |-> "budget-response", event |-> event,
                             branch |-> done.branch]}
  /\ UNCHANGED <<connector, context, processEnv, stacks, spend, alerts>>

NextHandler ==
  \/ CdkDeploy
  \/ DeployScript
  \/ \E sample \in BudgetEventSamples : HandleBudgetEvent(sample.event)

SpecHandler == InitCloud /\ [][NextHandler]_vars

----------------------------------------------------------------------------
(* C23 *)

\* the tier for a percentage, in dev and elsewhere
TierInDev ==
  (0 :> "none") @@ (49 :> "none") @@ (50 :> "warningActions")
  @@ (79 :> "warningActions") @@ (80 :> "criticalCostReduction")
  @@ (89 :> "criticalCostReduction") @@ (90 :> "emergencyShutdown")
  @@ (100 :> "emergencyShutdown") @@ (110 :> "emergencyShutdown")

TierElsewhere ==
  (0 :> "none") @@ (49 :> "none") @@ (50 :> "warningActions")
  @@ (79 :> "warningActions") @@ (80 :> "criticalCostReduction")
  @@ (89 :> "criticalCostReduction") @@ (90 :> "criticalCostReduction")
  @@ (100 :> "criticalCostReduction") @@ (110 :> "criticalCostReduction")

HandledEvents == {entry \in log : entry.function = "budget-response"}

\* C23: for an event whose message parses, the handler takes the one tier the
\* percentage p of the message selects: emergency shutdown for p >= 90 in dev,
\* else critical cost reduction for p >= 80, else the warning action for
\* p >= 50, else nothing; outside dev no event leads to the emergency shutdown
\* and no instance is stopped.
C23_OneTierByThreshold ==
  \A entry \in HandledEvents :
    \A sample \in BudgetEventSamples :
      (sample.event = entry.event /\ entry.event.json) =>
        /\ entry.branch = IF stacks.environment = "dev" THEN TierInDev[sample.p]
                          ELSE TierElsewhere[sample.p]
        /\ entry.branch # "emergencyShutdown" => instances = Fleet
        /\ stacks.environment # "dev" =>
             entry.branch # "emergencyShutdown" /\ instances = Fleet

\* an emergency shutdown in dev
C23_Witness ==
  \E entry \in HandledEvents :
    /\ stacks.environment = "dev"
    /\ entry.branch = "emergencyShutdown"
    /\ instances # Fleet

\* an event over 90% outside dev
C23_WitnessStaging ==
  \E entry \in HandledEvents :
    /\ stacks.environment = "staging"
    /\ entry.event = [json |-> TRUE, MessageType |-> <<"ACTUAL ", "110", "%">>]
    /\ entry.branch = "criticalCostReduction"


----------------------------------------------------------------------------
(* The deployment guard of the DeploymentSafetyStack (SpecGuard) *)

\* the limit of the guard on the size of an EBS volume
GuardMaxSizeDev == 100
GuardMaxSizeElsewhere == 1000

\* validateStackChanges: the violations found in the resources of a template
validateStackChanges(resources, environment) ==
  {id \in DOMAIN resources :
     LET resource == resources[id]
     IN \/ /\ resource.Type = "AWS::EC2::Instance"
           /\ environment = "dev"
           /\ Get(resource, "InstanceType") \notin {Undefined, ""}
           /\ resource["InstanceType"] \notin {"t3.micro", "t3.small"}
        \/ /\ resource.Type = "AWS::RDS::DBInstance"
           /\ environment = "prod"
           /\ ~("StorageEncrypted" \in DOMAIN resource /\ resource["StorageEncrypted"])
        \/ /\ resource.Type = "AWS::EBS::Volume"
           /\ (IF "Size" \in DOMAIN resource THEN resource["Size"] ELSE 0)
                > (IF environment = "dev" THEN GuardMaxSizeDev
                   ELSE GuardMaxSizeElsewhere)}

\* stackStatus.includes('FAILED') || stackStatus.includes('ROLLBACK')
FailedOrRollback(stackStatus) ==
  stackStatus \in {"CREATE_FAILED", "UPDATE_FAILED", "ROLLBACK_IN_PROGRESS",
                   "UPDATE_ROLLBACK_IN_PROGRESS", "UPDATE_ROLLBACK_COMPLETE"}

isExpensiveResourceType(resourceType) ==
  resourceType \in {"AWS::RDS::DBCluster", "AWS::ElastiCache::ReplicationGroup",
                    "AWS::Redshift::Cluster", "AWS::SageMaker::NotebookInstance",
                    "AWS::EC2::NatGateway"}

\* processCloudFormationEvent: what the guard reports for a stack event
processCloudFormationEvent(event, environment) ==
  [function |-> "deployment-guard",
   event |-> event,
   violations |->
     IF event.StackStatus \in {"CREATE_IN_PROGRESS", "UPDATE_IN_PROGRESS"}
     THEN validateStackChanges(event.resources, environment)
     ELSE {},
   failureAlert |-> FailedOrRollback(event.StackStatus),
   expensiveAlert |-> isExpensiveResourceType(event.ResourceType)]

Ec2Resource(instanceType) == [Type |-> "AWS::EC2::Instance", InstanceType |-> instanceType]
VolumeResource(size) == [Type |-> "AWS::EBS::Volume", Size |-> size]

\* the resources of the stack a stack event is about
ResourceSamples ==
  { ("Web" :> Ec2Resource("t3.micro")) @@ ("Data" :> VolumeResource(100)),
    ("Web" :> Ec2Resource("t3.medium")) @@ ("Data" :> VolumeResource(101)),
    ("Web" :> Ec2Resource("t3.large")) @@ ("Data" :> VolumeResource(500)),
    ("Web" :> Ec2Resource("m5.xlarge")) @@ ("Data" :> VolumeResource(501)),
    ("Web" :> Ec2Resource("m5.4xlarge")) @@ ("Data" :> VolumeResource(1000)),
    ("Web" :> [Type |-> "AWS::EC2::Instance"]) @@ ("Data" :> VolumeResource(1001)),
    ("Db" :> [Type |-> "AWS::RDS::DBInstance"]) @@ ("Data" :> VolumeResource(2000)),
    ("Db" :> [Type |-> "AWS::RDS::DBInstance", StorageEncrypted |-> TRUE])
      @@ ("Data" :> VolumeResource(2001)),
    ("Data" :> [Type |-> "AWS::EBS::Volume"]) }

StackEventSamples ==
  { [StackStatus |-> status, ResourceType |-> type, resources |-> resources] :
      status \in {"CREATE_IN_PROGRESS", "UPDATE_IN_PROGRESS", "UPDATE_COMPLETE",
                  "UPDATE_ROLLBACK_IN_PROGRESS"},
      type \in {"AWS::CloudFormation::Stack", "AWS::EC2::NatGateway"},
      resources \in ResourceSamples }

\* the guard is invoked with a CloudFormation stack event, once in a behaviour
DeploymentGuard(event) ==
  /\ stacks # EmptyObject
  /\ \A entry \in log : entry.function # "deployment-guard"
  /\ log' = log \cup {processCloudFormationEvent(event, stacks.environment)}
  /\ UNCHANGED <<connector, context, processEnv, stacks, instances, spend, alerts>>

NextGuard ==
  \/ CdkDeploy
  \/ DeployScript
  \/ \E event \in StackEventSamples : DeploymentGuard(event)

SpecGuard == InitCloud /\ [][NextGuard]_vars

----------------------------------------------------------------------------
(* C24 *)

GuardedEvents ==
  {entry \in log :
     /\ entry.function = "deployment-guard"
     /\ entry.event.StackStatus \in {"CREATE_IN_PROGRESS", "UPDATE_IN_PROGRESS"}}

\* C24: for dev, staging and prod the allow-list of instance types and the
\* maximum volume size are the same in getResourceLimits, in
\* ENVIRONMENT_CONFIGS and in the checks of the deployment guard: the tables
\* agree, and the guard reports an instance or a volume exactly when the
\* tables forbid it.
C24_LimitsAgreeEverywhere ==
  /\ \A environment \in {"dev", "staging", "prod"} :
       /\ getResourceLimits(environment).maxInstanceTypes
            = ENVIRONMENT_CONFIGS[environment].maxInstanceTypes
       /\ getResourceLimits(environment).maxVolumeSize
            = ENVIRONMENT_CONFIGS[environment].maxStorageSize
  /\ \A entry \in GuardedEvents :
       stacks.environment \in {"dev", "staging", "prod"} =>
         \A id \in DOMAIN entry.event.resources :
           LET resource == entry.event.resources[id]
               limits == getResourceLimits(stacks.environment)
           IN /\ (resource.Type = "AWS::EC2::Instance"
                  /\ "InstanceType" \in DOMAIN resource) =>
                   (id \in entry.violations
                      <=> resource["InstanceType"] \notin Range(limits.maxInstanceTypes))
              /\ (resource.Type = "AWS::EBS::Volume" /\ "Size" \in DOMAIN resource) =>
                   (id \in entry.violations <=> resource["Size"] > limits.maxVolumeSize)


----------------------------------------------------------------------------
(* The rollback function of the DeploymentSafetyStack (SpecRollback) *)

\* stack statuses as texts; "UPDATE_" and "CREATE_" are lexemes of their own
StackStatusSamples ==
  { <<"CREATE_", "IN_PROGRESS">>, <<"CREATE_", "COMPLETE">>, <<"CREATE_", "FAILED">>,
    <<"UPDATE_", "IN_PROGRESS">>, <<"UPDATE_", "COMPLETE">>,
    <<"UPDATE_", "ROLLBACK_COMPLETE">>, <<"ROLLBACK_COMPLETE">>,
    <<"DELETE_FAILED">> }

\* createRollbackChangeSet: every path returns null
createRollbackChangeSet == Undefined

\* cloudformation.cancelUpdateStack is accepted for a stack whose update is in
\* progress and rejected for any other
CancelAccepted(stackStatus) == Str(stackStatus) = "UPDATE_IN_PROGRESS"

\* performRollback: the calls made on the stack and the result returned
performRollback(stackStatus) ==
  IF Includes(stackStatus, "UPDATE_")
  THEN IF CancelAccepted(stackStatus)
       THEN [calls |-> <<"cancelUpdateStack">>, success |-> TRUE,
             action |-> "UPDATE_CANCELLED"]
       ELSE [calls |-> <<"cancelUpdateStack">>, success |-> FALSE,
             action |-> Undefined]
  ELSE IF Includes(stackStatus, "CREATE_")
  THEN [calls |-> <<"deleteStack">>, success |-> TRUE, action |-> "STACK_DELETED"]
  ELSE IF Str(stackStatus) \in {"UPDATE_COMPLETE", "CREATE_COMPLETE"}
  THEN IF createRollbackChangeSet # Undefined
       THEN [calls |-> <<"executeChangeSet">>, success |-> TRUE,
             action |-> "ROLLBACK_CHANGESET_EXECUTED"]
       ELSE [calls |-> <<>>, success |-> TRUE, action |-> "NO_ROLLBACK_AVAILABLE"]
  ELSE [calls |-> <<>>, success |-> TRUE, action |-> "NO_ACTION_REQUIRED"]

\* the rollback function is invoked for a stack, once in a behaviour; without
\* a stack name it throws before it looks at any stack
Rollback(stackName, stackStatus) ==
  /\ stacks # EmptyObject
  /\ \A entry \in log : entry.function # "rollback"
  /\ log' = log \cup
       {IF stackName = ""
        THEN [function |-> "rollback", stackStatus |-> stackStatus, notified |-> FALSE,
              result |-> [calls |-> <<>>, success |-> FALSE, action |-> Undefined]]
        ELSE [function |-> "rollback", stackStatus |-> stackStatus, notified |-> TRUE,
              result |-> performRollback(stackStatus)]}
  /\ UNCHANGED <<connector, context, processEnv, stacks, instances, spend, alerts>>

NextRollback ==
  \/ CdkDeploy
  \/ DeployScript
  \/ \E stackName \in {"", "my-stack"} : \E stackStatus \in StackStatusSamples :
       Rollback(stackName, stackStatus)

SpecRollback == InitCloud /\ [][NextRollback]_vars

----------------------------------------------------------------------------
(* C25 *)

Rollbacks == {entry \in log : entry.function = "rollback" /\ entry.notified}

\* C25: for a stack in UPDATE_COMPLETE or CREATE_COMPLETE the rollback function
\* takes the completed-stack branch (ROLLBACK_CHANGESET_EXECUTED or
\* NO_ROLLBACK_AVAILABLE); it cancels an update or deletes the stack only for
\* a stack whose update or creation is in progress.
C25_CompletedStackIsNotCancelledOrDeleted ==
  \A entry \in Rollbacks :
    /\ Str(entry.stackStatus) \in {"UPDATE_COMPLETE", "CREATE_COMPLETE"} =>
         entry.result.action \in {"ROLLBACK_CHANGESET_EXECUTED", "NO_ROLLBACK_AVAILABLE"}
    /\ "cancelUpdateStack" \in Range(entry.result.calls) =>
         Str(entry.stackStatus) = "UPDATE_IN_PROGRESS"
    /\ "deleteStack" \in Range(entry.result.calls) =>
         Str(entry.stackStatus) = "CREATE_IN_PROGRESS"


----------------------------------------------------------------------------
(* C26 *)

\* the paths find prints for the files connect generates
GeneratedFound ==
  GeneratedPaths \cup {"./" \o generated : generated \in GeneratedPaths}

\* C26: a second run of connect on the project the first run left, nothing
\* being changed in between, finds no resource mention in a file the first run
\* generated and writes the budget the first run wrote.
C26_SecondRunRepeatsFirst ==
  [][(runs = 2 /\ pc = "createConfigurationFiles" /\ pc' = "installDependencies")
       => /\ configFile'["budget"] = configFile["budget"]
          /\ \A i \in DOMAIN config["existingResources"] :
               config["existingResources"][i].file \notin GeneratedFound]_vars


----------------------------------------------------------------------------
(* C27 *)

FirstFiveSteps ==
  {"analyzeProject", "gatherConfiguration", "injectCostControls",
   "setupDeploymentScripts", "createConfigurationFiles"}

StepAfter(step) ==
  StepOrder[(CHOOSE i \in DOMAIN StepOrder : StepOrder[i] = step) + 1]

\* C27: a step of 1 to 5 either hands over to the next step or ends the run
\* with 'Connection failed', status 1 and no success message; after that no
\* step runs and nothing more is written; step 6 always ends the run with the
\* success message and status 0, whether npm succeeded or not.
C27_FailureStopsRunExceptInStepSix ==
  [][/\ pc \in FirstFiveSteps =>
          \/ pc' = StepAfter(pc) /\ exitCode' = {} /\ errorMessage' = ""
          \/ pc' = "exited" /\ exitCode' = {1} /\ errorMessage' # ""
     /\ pc = "exited" => UNCHANGED <<inputs, config, pc, written, exitCode, errorMessage>>
     /\ pc = "installDependencies" =>
          pc' = "done" /\ exitCode' = {0} /\ errorMessage' = ""]_vars

\* a run that failed in step 5, after steps 3 and 4 had written their files
C27_Witness ==
  /\ pc = "exited"
  /\ errorMessage = WriteError
  /\ "package.json" \in written
  /\ RelPath(ConfigFile) \notin written

\* a run that succeeded although npm failed
C27_WitnessNpmFailed ==
  /\ pc = "done"
  /\ exitCode = {0}
  /\ ~existsSync("node_modules/aws-sdk")


----------------------------------------------------------------------------
(* The project types the top-level flow can produce (Spec) *)

TopLevelProjectTypes ==
  {"cdk-typescript", "nodejs-aws", "nodejs", "java-maven", "python"}

OnlyGoOrRust ==
  /\ NoManifest
  /\ existsSync("go.mod") \/ existsSync("Cargo.toml")

\* C28: once connect is past the project check the detected projectType is
\* one of cdk-typescript, nodejs-aws, nodejs, java-maven and python, never
\* golang, rust or unknown; a directory whose only markers are go.mod or
\* Cargo.toml is rejected with the 'no project' error and no type is detected
C28_TopLevelTypesOnly ==
  /\ "projectType" \in DOMAIN config => config["projectType"] \in TopLevelProjectTypes
  /\ OnlyGoOrRust =>
       /\ "projectType" \notin DOMAIN config
       /\ pc \in {"analyzeProject", "exited"}
       /\ pc = "exited" => errorMessage = NoProjectMessage

C28_Witness ==
  /\ existsSync("go.mod")
  /\ "projectType" \in DOMAIN config
  /\ config["projectType"] = "python"
  /\ pc = "done"

C28_WitnessRejected ==
  /\ OnlyGoOrRust
  /\ existsSync("Cargo.toml")
  /\ pc = "exited"
  /\ exitCode = {1}


----------------------------------------------------------------------------
(* .gitignore across runs (Spec) *)

GitIgnoreUpdated ==
  pc = "createConfigurationFiles" /\ pc' = "installDependencies"

\* C29: after a call of updateGitIgnore each of the three cost-control
\* entries occurs in .gitignore, what the file held before the call is still
\* there unchanged and in place, and a call on a file an earlier call left
\* appends nothing
C29_GitIgnoreUpdateIsIdempotent ==
  [][GitIgnoreUpdated =>
       /\ \A i \in DOMAIN GitIgnoreEntries :
            ContentIncludes(gitIgnore', GitIgnoreEntries[i])
       /\ existsSync(".gitignore") =>
            /\ Len(gitIgnore) <= Len(gitIgnore')
            /\ SubSeq(gitIgnore', 1, Len(gitIgnore)) = gitIgnore
       /\ runs > 1 => gitIgnore' = gitIgnore]_vars

C29_Witness ==
  /\ runs = 2
  /\ pc = "installDependencies"
  /\ gitIgnore = << <<"node_modules">>, <<"!", "cost-control-stack.json">>,
                    <<"# Cost Control Template">>, <<"deployment-report-*.json">>,
                    NoText >>

C29_WitnessCreated ==
  /\ runs = 1
  /\ pc = "installDependencies"
  /\ ".gitignore" \in written
  /\ gitIgnore = JoinedLines(GitIgnoreEntries)


----------------------------------------------------------------------------
(* The wrapper on the configuration connect wrote (SpecWrapper) *)

C30_WitnessLargerBudget ==
  /\ AsWritten
  /\ wrapper.validated
  /\ wrapper.isValid
  /\ configFile["budget"] = 150

=============================================================================
